---- MODULE Spec2Model ----
(***************************************************************************)
(* Verification model of the expense tracker's daily-tips route            *)
(* (src/unnamed/part_000): the heuristic tip generator                     *)
(* analyzeSpendingPatterns, the AI step generateDailyAITips with its       *)
(* fallback, the process-wide dailyTipsCache and the POST handler.         *)
(*                                                                         *)
(* Amounts are whole currency units.  The code computes with IEEE doubles; *)
(* on whole amounts every sum and difference below is exact, and the       *)
(* percentage thresholds (10 and 25) are compared in cross-multiplied      *)
(* integer form, which agrees with the double computation on such inputs.  *)
(* Titles and messages of the heuristic tips are formatted text derived    *)
(* from the same numbers and are not modelled.                             *)
(***************************************************************************)
EXTENDS Integers, Sequences, FiniteSets, TLC

VARIABLES
    now,            \* the wall clock read by `new Date()`: hours since 2025-01-01T00:00Z
    tz,             \* the server's time-zone offset from UTC in hours (fixed for the process)
    apiKey,         \* whether process.env.ANTHROPIC_API_KEY is set (fixed for the process)
    dailyTipsCache, \* <<>> for null, else <<[tips, generatedDate, expenseCount]>>
    pc,             \* per request: where its POST handler stands
    body,           \* per request: the parsed JSON body
    tips,           \* per request: the tips generateDailyAITips resolved with
    response,       \* the response sent last
    seenGen,        \* per request: the cache generation its staleness check saw (history)
    aiOutcome,      \* per request: how its AI step ended (history)
    cacheGen,       \* number of cache writes so far (history)
    storedAt,       \* the clock at the last cache write (history)
    started,        \* number of requests received so far
    aExpenses,      \* heuristic-generator harness: the expense list under analysis
    aTips,          \* heuristic-generator harness: the tips returned
    aDone,          \* heuristic-generator harness: whether the generator has run
    aAiTips,        \* tip-normalisation harness: the array parsed from the provider's text
    vExpenses,      \* views: the `expenses` a page or component was given
    selectedMonth,  \* monthly page: the month key selected, <<>> for none
    includeBusinessExpenses,    \* charts: the "Include Business Expenses" checkbox
    rendered,       \* views: <<>>, or <<r>> with r what the rendered component computed
    store,          \* pages: the rows of the expenses table, in the order the query returns
    page,           \* pages: which page is mounted, "expenses" or "monthly"
    from,           \* fetchAllExpenses: the offset of the next page request
    allExpenses,    \* fetchAllExpenses: the rows collected so far
    fetchMore,      \* fetchAllExpenses: the loop flag
    loading,        \* pages: the loading flag
    error,          \* pages: the error state, <<>> for null
    dailyExpenses,  \* expenses page: the result of get_daily_expenses
    requests,       \* the offsets of the page requests made so far (history)
    edits,          \* pages: the delete and update calls so far, with the backend's answer (history)
    sortField,      \* expense list: the column sorted by
    sortDirection,  \* expense list: "asc" or "desc"
    dateRangeStart, \* expense list: <<>> for "", else <<the date of the From input>>
    dateRangeEnd,   \* expense list: <<>> for "", else <<the date of the To input>>
    currentPage     \* expense list: the page of the list shown

vars == <<now, tz, apiKey, dailyTipsCache, pc, body, tips, response, seenGen, aiOutcome,
          cacheGen, storedAt, started, aExpenses, aTips, aDone, aAiTips,
          vExpenses, selectedMonth, includeBusinessExpenses, rendered,
          store, page, from, allExpenses, fetchMore, loading, error, dailyExpenses,
          requests, edits, sortField, sortDirection, dateRangeStart, dateRangeEnd,
          currentPage>>

routeVars == <<apiKey, dailyTipsCache, pc, body, tips, response, seenGen, aiOutcome,
               cacheGen, storedAt, started>>

harnessVars == <<aExpenses, aTips, aDone, aAiTips>>

viewVars == <<vExpenses, selectedMonth, includeBusinessExpenses, rendered>>

listVars == <<sortField, sortDirection, dateRangeStart, dateRangeEnd, currentPage>>

pageVars == <<store, page, from, allExpenses, fetchMore, loading, error, dailyExpenses,
              requests, edits, listVars>>

(***************************************************************************)
(* Calendar: what the JavaScript Date getters compute.                     *)
(***************************************************************************)
\* Instants are counted from 2025-01-01T00:00Z; no date before it is used.
IsLeapYear(y) == (y % 4 = 0 /\ y % 100 # 0) \/ y % 400 = 0

\* m is a JavaScript month index, 0..11
DaysInMonth(y, m) ==
    IF m = 1 THEN (IF IsLeapYear(y) THEN 29 ELSE 28)
    ELSE IF m \in {3, 5, 8, 10} THEN 30 ELSE 31

DaysInYear(y) == IF IsLeapYear(y) THEN 366 ELSE 365

RECURSIVE DaysBeforeMonth(_, _)
DaysBeforeMonth(y, m) == IF m = 0 THEN 0 ELSE DaysBeforeMonth(y, m - 1) + DaysInMonth(y, m - 1)

RECURSIVE DaysBeforeYear(_)
DaysBeforeYear(y) ==
    IF y <= 2025 THEN 0
    ELSE DaysBeforeYear(y - 1) + DaysInYear(y - 1)

\* Date.parse of a date-only string "YYYY-MM-DD": midnight UTC of that day.  The
\* string is the tuple <<YYYY, MM, DD>> (MM from 1); anything else is <<>>.
DateParse(s) == (DaysBeforeYear(s[1]) + DaysBeforeMonth(s[1], s[2] - 1) + (s[3] - 1)) * 24

IsDateString(s) == Len(s) = 3

\* The year, month (from 0) and day of month (from 1) of day d counted from the
\* first day of month m of year y.
RECURSIVE FieldsFrom(_, _, _)
FieldsFrom(y, m, d) ==
    IF m = 0 /\ d >= DaysInYear(y) THEN FieldsFrom(y + 1, 0, d - DaysInYear(y))
    ELSE IF d >= DaysInMonth(y, m) THEN FieldsFrom(y, m + 1, d - DaysInMonth(y, m))
    ELSE [year |-> y, month |-> m, date |-> d + 1]

\* the calendar fields of instant t in UTC, whatever the zone
FieldsUTC(t, off) == FieldsFrom(2025, 0, t \div 24)

\* The calendar fields of instant t (hours) shifted by off hours.
Fields(t, off) == FieldsFrom(2025, 0, (t + off) \div 24)

GetMonth(t, zone) == Fields(t, zone).month
GetFullYear(t, zone) == Fields(t, zone).year

\* Date.prototype.toDateString: the local calendar date.
ToDateString(t, zone) == Fields(t, zone)

\* Date.prototype.toISOString: the UTC fields and time of day.
ToISOString(t) == [year |-> Fields(t, 0).year, month |-> Fields(t, 0).month + 1,
                   date |-> Fields(t, 0).date, hour |-> t % 24]

\* new Date(isoString): back to the instant.
FromISOString(s) == DateParse(<<s.year, s.month, s.date>>) + s.hour

(***************************************************************************)
(* analyzeSpendingPatterns                                                 *)
(***************************************************************************)
RECURSIVE SumAmounts(_)
SumAmounts(list) == IF list = <<>> THEN 0 ELSE Head(list).amount + SumAmounts(Tail(list))

\* expenses.filter(e => month and year of new Date(e.date) are the given ones);
\* the getters of an Invalid Date are NaN, equal to nothing.
InMonth(e, month, year, zone) ==
    /\ IsDateString(e.date)
    /\ LET expenseDate == DateParse(e.date)
       IN  GetMonth(expenseDate, zone) = month /\ GetFullYear(expenseDate, zone) = year

\* every expense taken as one of the current month
ExpensesOfAnyMonth(expenses, t, zone) == expenses

CurrentMonthExpenses(expenses, t, zone) ==
    LET currentMonth == GetMonth(t, zone)
        currentYear == GetFullYear(t, zone)
    IN  SelectSeq(expenses, LAMBDA e : InMonth(e, currentMonth, currentYear, zone))

\* the month before taken in the current year, also in January
PreviousMonthSameYear(expenses, t, zone) ==
    LET currentMonth == GetMonth(t, zone)
        currentYear == GetFullYear(t, zone)
        previousMonth == IF currentMonth = 0 THEN 11 ELSE currentMonth - 1
    IN  SelectSeq(expenses, LAMBDA e : InMonth(e, previousMonth, currentYear, zone))

PreviousMonthExpenses(expenses, t, zone) ==
    LET currentMonth == GetMonth(t, zone)
        currentYear == GetFullYear(t, zone)
        previousMonth == IF currentMonth = 0 THEN 11 ELSE currentMonth - 1
        previousYear == IF currentMonth = 0 THEN currentYear - 1 ELSE currentYear
    IN  SelectSeq(expenses, LAMBDA e : InMonth(e, previousMonth, previousYear, zone))

\* categoryTotals: the category names in insertion order (the iteration order of
\* Object.entries for string keys) ...
RECURSIVE CategoryOrder(_)
CategoryOrder(list) ==
    IF list = <<>> THEN <<>>
    ELSE LET rest == CategoryOrder(SubSeq(list, 1, Len(list) - 1))
             c == list[Len(list)].category
         IN  IF \E i \in 1..Len(rest) : rest[i] = c THEN rest ELSE Append(rest, c)

\* ... and the amount accumulated under one name.
CategoryAmount(list, c) == SumAmounts(SelectSeq(list, LAMBDA e : e.category = c))

\* the reduce over Object.entries(categoryTotals), from {category: '', amount: 0}
RECURSIVE HighestFrom(_, _, _)
HighestFrom(list, order, max) ==
    IF order = <<>> THEN max
    ELSE LET amt == CategoryAmount(list, Head(order))
         IN  HighestFrom(list, Tail(order),
                         IF amt > max.amount THEN [category |-> Head(order), amount |-> amt]
                         ELSE max)

HighestCategory(list) == HighestFrom(list, CategoryOrder(list), [category |-> "", amount |-> 0])

\* the tip pushed without looking at the amount
HighestCategoryTipAlways(list) ==
    << [id |-> "highest-category", type |-> "insight", impact |-> "medium",
        actionable |-> TRUE, category |-> <<HighestCategory(list).category>>,
        savings |-> <<>>] >>

\* An absent optional field (category?, savings?) is <<>>, a present one <<v>>.
HighestCategoryTip(list) ==
    LET highestCategory == HighestCategory(list)
    IN  IF highestCategory.amount > 0
        THEN << [id |-> "highest-category", type |-> "insight", impact |-> "medium",
                 actionable |-> TRUE, category |-> <<highestCategory.category>>,
                 savings |-> <<>>] >>
        ELSE <<>>

Abs(x) == IF x < 0 THEN -x ELSE x

\* percentageChange = (cur - prev) / prev * 100, compared with 10 and 25 after
\* multiplying through by prev > 0.
MonthComparisonTip(currentMonthTotal, previousMonthTotal) ==
    IF previousMonthTotal > 0
       /\ Abs(currentMonthTotal - previousMonthTotal) * 100 > 10 * previousMonthTotal
    THEN LET increased == currentMonthTotal - previousMonthTotal > 0
             decreased == currentMonthTotal - previousMonthTotal < 0
         IN << [id |-> "month-comparison",
                type |-> IF increased THEN "warning" ELSE "achievement",
                impact |-> IF Abs(currentMonthTotal - previousMonthTotal) * 100
                                > 25 * previousMonthTotal
                           THEN "high" ELSE "medium",
                actionable |-> increased,
                category |-> <<>>,
                savings |-> IF decreased
                            THEN <<Abs(currentMonthTotal - previousMonthTotal)>>
                            ELSE <<>>] >>
    ELSE <<>>

\* Math.round(x * 0.25) for a whole x >= 0: the nearest integer, halves upwards.
RoundQuarter(x) == (x + 2) \div 4

SmallPurchases(list) == SelectSeq(list, LAMBDA e : e.amount < 10)

\* the count threshold met by 10 small purchases already
SmallPurchasesTipFromTen(list) ==
    LET smallPurchases == SmallPurchases(list)
        smallPurchasesTotal == SumAmounts(smallPurchases)
    IN  IF Len(smallPurchases) >= 10 /\ smallPurchasesTotal > 30
        THEN << [id |-> "small-purchases", type |-> "opportunity", impact |-> "medium",
                 actionable |-> TRUE, category |-> <<>>,
                 savings |-> <<RoundQuarter(smallPurchasesTotal)>>] >>
        ELSE <<>>

SmallPurchasesTip(list) ==
    LET smallPurchases == SmallPurchases(list)
        smallPurchasesTotal == SumAmounts(smallPurchases)
    IN  IF Len(smallPurchases) > 10 /\ smallPurchasesTotal > 30
        THEN << [id |-> "small-purchases", type |-> "opportunity", impact |-> "medium",
                 actionable |-> TRUE, category |-> <<>>,
                 savings |-> <<RoundQuarter(smallPurchasesTotal)>>] >>
        ELSE <<>>

ImpactOrder(impact) == CASE impact = "high" -> 3 [] impact = "medium" -> 2 [] OTHER -> 1

\* Array.prototype.sort with the comparator impactOrder[b] - impactOrder[a]:
\* a stable sort, so an insertion that passes only strictly smaller elements.
InsertByImpact(sorted, tip) ==
    LET k == Cardinality({i \in 1..Len(sorted) :
                            ImpactOrder(sorted[i].impact) >= ImpactOrder(tip.impact)})
    IN  SubSeq(sorted, 1, k) \o <<tip>> \o SubSeq(sorted, k + 1, Len(sorted))

\* the tips left in the order of their discovery
LeftUnsorted(list) == list

RECURSIVE SortByImpact(_)
SortByImpact(list) ==
    IF list = <<>> THEN <<>>
    ELSE InsertByImpact(SortByImpact(SubSeq(list, 1, Len(list) - 1)), list[Len(list)])

SliceTo3(list) == SubSeq(list, 1, IF Len(list) < 3 THEN Len(list) ELSE 3)

AnalyzeSpendingPatterns(expenses, t, zone) ==
    LET currentMonthExpenses == CurrentMonthExpenses(expenses, t, zone)
        previousMonthExpenses == PreviousMonthExpenses(expenses, t, zone)
        found == HighestCategoryTip(currentMonthExpenses)
                 \o MonthComparisonTip(SumAmounts(currentMonthExpenses),
                                       SumAmounts(previousMonthExpenses))
                 \o SmallPurchasesTip(currentMonthExpenses)
    IN  SliceTo3(SortByImpact(found))

(***************************************************************************)
(* Inputs.  An expense is [amount, category, date]; id and comment are     *)
(* never read by the route.  Lists are built from runs of equal expenses   *)
(* so that the count thresholds of the rules are reached.                  *)
(***************************************************************************)
MaxRun == 12    \* longest first run of equal expenses in an analysed list
MaxTail == 1    \* longest second run

Amounts == {0, 3, 9, 10, 12, 30}
Categories == {"Food", "Rent"}
DateStrings == {<<2025, 1, 15>>, <<2025, 11, 15>>, <<2025, 12, 15>>, <<2026, 1, 1>>, <<>>}
TzOffsets == {-5, 0}

Expenses == [amount : Amounts, category : Categories, date : DateStrings]

RECURSIVE Run(_, _)
Run(e, n) == IF n = 0 THEN <<>> ELSE <<e>> \o Run(e, n - 1)

\* the instants at which the harness runs the generator:
\* 2026-01-01T02:00Z: January 2026 in the zone of offset 0 (the month before is
\* December 2025) and December 2025 in the zone of offset -5 (the month before
\* is November 2025).
AnalysisInstants == {DateParse(<<2026, 1, 1>>) + 2}

RouteIdle ==
    /\ apiKey = FALSE
    /\ dailyTipsCache = <<>>
    /\ pc = <<>>
    /\ body = <<>>
    /\ tips = <<>>
    /\ response = <<>>
    /\ seenGen = <<>>
    /\ aiOutcome = <<>>
    /\ cacheGen = 0
    /\ storedAt = 0
    /\ started = 0

\* the useState initial values of ExpensesList
ListMounted ==
    /\ sortField = "date"
    /\ sortDirection = "desc"
    /\ dateRangeStart = <<>>
    /\ dateRangeEnd = <<>>
    /\ currentPage = 1

\* no page is mounted
PageIdle ==
    /\ store = <<>>
    /\ page = "none"
    /\ from = 0
    /\ allExpenses = <<>>
    /\ fetchMore = FALSE
    /\ loading = FALSE
    /\ error = <<>>
    /\ dailyExpenses = <<>>
    /\ requests = <<>>
    /\ edits = <<>>
    /\ ListMounted

\* no page or component has been given anything
ViewIdle ==
    /\ vExpenses = <<>>
    /\ selectedMonth = <<>>
    /\ includeBusinessExpenses = TRUE
    /\ rendered = <<>>

(***************************************************************************)
(* Harness of the heuristic generator: every input list at every instant.  *)
(***************************************************************************)
InitAnalysis ==
    /\ RouteIdle
    /\ PageIdle
    /\ ViewIdle
    /\ now \in AnalysisInstants
    /\ tz \in TzOffsets
    /\ \E e1 \in Expenses, e2 \in Expenses, n1 \in 0..MaxRun, n2 \in 0..MaxTail :
            aExpenses = Run(e1, n1) \o Run(e2, n2)
    /\ aTips = <<>>
    /\ aDone = FALSE
    /\ aAiTips = <<>>

Analyze ==
    /\ ~aDone
    /\ aTips' = AnalyzeSpendingPatterns(aExpenses, now, tz)
    /\ aDone' = TRUE
    /\ UNCHANGED <<now, tz, aExpenses, aAiTips, routeVars, viewVars, pageVars>>

NextAnalysis == Analyze

SpecAnalysis == InitAnalysis /\ [][NextAnalysis]_vars

(***************************************************************************)
(* The tip cache and the AI step                                           *)
(***************************************************************************)
\* the staleness check with the count threshold reached at a difference of 5
ShouldRegenerateFromFive(cache, expenses, t, zone) ==
    IF cache = <<>> THEN TRUE
    ELSE LET today == ToDateString(t, zone)
             cacheDate == ToDateString(FromISOString(cache[1].generatedDate), zone)
             expenseCountChanged == Abs(Len(expenses) - cache[1].expenseCount) >= 5
         IN  today # cacheDate \/ expenseCountChanged

\* the staleness check without the comparison of the days
ShouldRegenerateCountOnly(cache, expenses, t, zone) ==
    IF cache = <<>> THEN TRUE
    ELSE Abs(Len(expenses) - cache[1].expenseCount) > 5

ShouldRegenerateTips(cache, expenses, t, zone) ==
    IF cache = <<>> THEN TRUE
    ELSE LET today == ToDateString(t, zone)
             cacheDate == ToDateString(FromISOString(cache[1].generatedDate), zone)
             expenseCountChanged == Abs(Len(expenses) - cache[1].expenseCount) > 5
         IN  today # cacheDate \/ expenseCountChanged

\* a store that keeps the expense count of the cache it replaces
MergedCache(newTips, t, expenses) ==
    << [tips |-> newTips, generatedDate |-> ToISOString(t),
        expenseCount |-> IF dailyTipsCache = <<>> THEN Len(expenses)
                         ELSE dailyTipsCache[1].expenseCount] >>

\* dailyTipsCache = { tips, generatedDate: new Date().toISOString(), expenseCount }
NewCache(newTips, t, expenses) ==
    << [tips |-> newTips, generatedDate |-> ToISOString(t), expenseCount |-> Len(expenses)] >>

\* One element of the array parsed from the provider's text, made a tip.  Of
\* a raw element, id, title, message and category are <<>> when left out (or
\* falsy) and <<v>> otherwise; type and impact are a string, "<undefined>"
\* when left out; savings is <<>> when left out and otherwise
\* <<[typeof, value]>>.
ValidTip(tip, index, t) ==
    [id |-> IF tip.id # <<>> THEN tip.id ELSE <<"daily-tip", t, index>>,
     type |-> IF tip.type \in {"insight", "warning", "opportunity", "achievement"}
              THEN tip.type ELSE "insight",
     title |-> IF tip.title # <<>> THEN tip.title[1] ELSE "Financial Insight",
     message |-> IF tip.message # <<>> THEN tip.message[1]
                 ELSE "Review your spending patterns for optimization opportunities.",
     impact |-> IF tip.impact \in {"high", "medium", "low"} THEN tip.impact ELSE "medium",
     actionable |-> tip.actionable,
     category |-> tip.category,
     savings |-> IF tip.savings # <<>> /\ tip.savings[1].typeof = "number"
                 THEN <<tip.savings[1].value>> ELSE <<>>]

\* a slice that keeps every element
KeepAll(list, first, last) == list

\* Array.prototype.slice(first, last) for 0 <= first <= last
Slice(list, first, last) ==
    SubSeq(list, first + 1, IF last < Len(list) THEN last ELSE Len(list))

\* aiTips.slice(0, 3).map(...)
ValidTips(aiTips, t) ==
    LET kept == Slice(aiTips, 0, 3)
    IN  [i \in 1..Len(kept) |-> ValidTip(kept[i], i - 1, t)]

\* How the awaited fetch and the reading of its answer can end.
AIFailures == {"fetch-rejected", "not-ok", "no-content", "no-json-array", "parse-error"}

\* a failed AI step that leaves the request without tips
NoFallback(reply, expenses, t, zone) ==
    IF reply.kind = "ok" THEN ValidTips(reply.aiTips, t) ELSE <<>>

\* What generateDailyAITips resolves with once the provider's answer is in: the
\* try block's return, or the catch block's analyzeSpendingPatterns.
TipsAfterReply(reply, expenses, t, zone) ==
    IF reply.kind = "ok" THEN ValidTips(reply.aiTips, t)
    ELSE AnalyzeSpendingPatterns(expenses, t, zone)

\* a check that also refuses the empty array
RefuseEmptyToo(b) == b.kind # "array" \/ b.expenses = <<>>

\* if (!expenses || !Array.isArray(expenses))
InvalidExpenses(b) == b.kind # "array"

ErrorResponse(code, text) == [status |-> code, error |-> text]

TipsResponse(theTips, stamp, expenses, isCached, key) ==
    [status |-> 200, tips |-> theTips, timestamp |-> stamp, expenseCount |-> Len(expenses),
     cached |-> isCached, aiEnabled |-> key]

(***************************************************************************)
(* The normalisation of the provider's tips on arrays of raw elements      *)
(***************************************************************************)
MaxAiTips == 4

RawTips ==
    [id : {<<>>, <<"ai-tip">>},
     type : {"warning", "advice", "<undefined>"},
     impact : {"low", "huge", "<undefined>"},
     title : {<<>>, <<"Food is up">>},
     message : {<<>>, <<"Cook at home.">>},
     actionable : {TRUE},
     category : {<<>>},
     savings : {<<>>, <<[typeof |-> "number", value |-> 20]>>,
                <<[typeof |-> "string", value |-> "20"]>>}]

InitTips ==
    /\ RouteIdle
    /\ ViewIdle
    /\ PageIdle
    /\ now = DateParse(<<2025, 12, 31>>) + 20
    /\ tz = 0
    /\ aExpenses = <<>>
    /\ aTips = <<>>
    /\ aDone = FALSE
    /\ \E tip \in RawTips, n \in 0..MaxAiTips :
          aAiTips = [i \in 1..n |->
                      IF i % 2 = 1 THEN tip
                      ELSE [tip EXCEPT !.type = "achievement", !.impact = "medium"]]

\* const validTips = aiTips.slice(0, 3).map(...)
NormalizeTips ==
    /\ ~aDone
    /\ aTips' = ValidTips(aAiTips, now)
    /\ aDone' = TRUE
    /\ UNCHANGED <<now, tz, aExpenses, aAiTips, routeVars, viewVars, pageVars>>

NextTips == NormalizeTips

SpecTips == InitTips /\ [][NextTips]_vars

(***************************************************************************)
(* Requests to the route                                                   *)
(***************************************************************************)
MaxRequests == 2    \* requests received in one run

\* the requests that can be in flight at once
Slots == {1, 2}

RouteExpenseA == [amount |-> 3, category |-> "Food", date |-> <<2025, 12, 15>>]
RouteExpenseB == [amount |-> 10, category |-> "Rent", date |-> <<2026, 1, 1>>]

\* lengths 0, 1, 6 and 7: the counts of two requests differ by 1, 5, 6 or 7
RouteLists ==
    {<<>>, <<RouteExpenseA>>}
    \cup {Run(RouteExpenseA, n) \o <<RouteExpenseB>> : n \in {5, 6}}

\* A body is what request.json() resolves with: "unparsable" when it rejects or
\* resolves with null (the destructuring throws), "missing" when expenses is
\* absent or falsy, "not-array" when it is another truthy value, else the array.
Bodies ==
    {[kind |-> k, expenses |-> <<>>] : k \in {"unparsable", "missing", "not-array"}}
    \cup {[kind |-> "array", expenses |-> l] : l \in RouteLists}

RawTipGood == [id |-> <<"ai-tip">>, type |-> "warning", impact |-> "high",
               title |-> <<"Food is up">>, message |-> <<"Cook at home.">>,
               actionable |-> TRUE, category |-> <<"Food">>,
               savings |-> <<[typeof |-> "number", value |-> 20]>>]
RawTipPoor == [id |-> <<>>, type |-> "advice", impact |-> "huge",
               title |-> <<>>, message |-> <<>>,
               actionable |-> FALSE, category |-> <<>>,
               savings |-> <<[typeof |-> "string", value |-> "20"]>>]

AIReplies ==
    {[kind |-> k, aiTips |-> <<>>] : k \in AIFailures}
    \cup {[kind |-> "ok",
           aiTips |-> [i \in 1..n |-> IF i % 2 = 1 THEN RawTipGood ELSE RawTipPoor]] :
          n \in {0, 2, 4}}

\* The instants the clock shows: 2025-12-31T20:00Z and 2026-01-01T01:00Z, the
\* same calendar day five hours west of UTC and a new day (month, year) at UTC.
RouteInstants == {DateParse(<<2025, 12, 31>>) + 20, DateParse(<<2026, 1, 1>>) + 1}

NoResponse == [status |-> 0]
NoBody == [kind |-> "none", expenses |-> <<>>]

Init ==
    /\ PageIdle
    /\ now = DateParse(<<2025, 12, 31>>) + 20
    /\ tz \in TzOffsets
    /\ apiKey \in BOOLEAN
    /\ dailyTipsCache = <<>>
    /\ pc = [r \in Slots |-> "idle"]
    /\ body = [r \in Slots |-> NoBody]
    /\ tips = [r \in Slots |-> <<>>]
    /\ seenGen = [r \in Slots |-> 0]
    /\ aiOutcome = [r \in Slots |-> "none"]
    /\ response = NoResponse
    /\ cacheGen = 0
    /\ storedAt = 0
    /\ started = 0
    /\ aExpenses = <<>>
    /\ aTips = <<>>
    /\ aDone = FALSE
    /\ aAiTips = <<>>
    /\ ViewIdle

\* A request arrives; the handler runs to `await request.json()`.
Receive(r, b) ==
    /\ pc[r] = "idle"
    /\ started < MaxRequests
    /\ started' = started + 1
    /\ pc' = [pc EXCEPT ![r] = "json"]
    /\ body' = [body EXCEPT ![r] = b]
    /\ UNCHANGED <<now, tz, apiKey, dailyTipsCache, tips, seenGen, aiOutcome, response,
                   cacheGen, storedAt, harnessVars, pageVars, viewVars>>

\* The handler of r returns `resp`: the response is sent and the request is over.
Answer(r, resp) ==
    /\ response' = resp
    /\ pc' = [pc EXCEPT ![r] = "idle"]
    /\ body' = [body EXCEPT ![r] = NoBody]
    /\ tips' = [tips EXCEPT ![r] = <<>>]
    /\ seenGen' = [seenGen EXCEPT ![r] = 0]
    /\ aiOutcome' = [aiOutcome EXCEPT ![r] = "none"]

\* The body is in: POST runs on to its next await, or to its response.
Handle(r) ==
    /\ pc[r] = "json"
    /\ LET expenses == body[r].expenses
       IN  IF body[r].kind = "unparsable"
           THEN /\ Answer(r, ErrorResponse(500, "Failed to generate daily tips"))
           ELSE IF InvalidExpenses(body[r])
           THEN /\ Answer(r, ErrorResponse(400, "Invalid expenses data"))
           ELSE IF ~ShouldRegenerateTips(dailyTipsCache, expenses, now, tz)
           THEN /\ Answer(r, TipsResponse(dailyTipsCache[1].tips,
                                          dailyTipsCache[1].generatedDate,
                                          expenses, TRUE, apiKey))
           ELSE IF ~apiKey
           THEN /\ tips' = [tips EXCEPT ![r] = AnalyzeSpendingPatterns(expenses, now, tz)]
                /\ aiOutcome' = [aiOutcome EXCEPT ![r] = "no-key"]
                /\ seenGen' = [seenGen EXCEPT ![r] = cacheGen]
                /\ pc' = [pc EXCEPT ![r] = "generated"]
                /\ UNCHANGED <<body, response>>
           ELSE /\ seenGen' = [seenGen EXCEPT ![r] = cacheGen]
                /\ pc' = [pc EXCEPT ![r] = "fetch"]
                /\ UNCHANGED <<body, tips, response, aiOutcome>>
    /\ UNCHANGED <<now, tz, apiKey, dailyTipsCache, cacheGen, storedAt, started, harnessVars, pageVars, viewVars>>

\* The awaited fetch settles and its answer is read: generateDailyAITips resolves.
ProviderSettles(r, reply) ==
    /\ pc[r] = "fetch"
    /\ tips' = [tips EXCEPT ![r] = TipsAfterReply(reply, body[r].expenses, now, tz)]
    /\ aiOutcome' = [aiOutcome EXCEPT ![r] = IF reply.kind = "ok" THEN "ok" ELSE "failed"]
    /\ pc' = [pc EXCEPT ![r] = "generated"]
    /\ UNCHANGED <<now, tz, apiKey, dailyTipsCache, body, response, seenGen, cacheGen,
                   storedAt, started, harnessVars, pageVars, viewVars>>

\* POST resumes after `await generateDailyAITips`: it stores the cache and answers.
Store(r) ==
    /\ pc[r] = "generated"
    /\ dailyTipsCache' = NewCache(tips[r], now, body[r].expenses)
    /\ Answer(r, TipsResponse(tips[r], ToISOString(now), body[r].expenses, FALSE, apiKey))
    /\ cacheGen' = cacheGen + 1
    /\ storedAt' = now
    /\ UNCHANGED <<now, tz, apiKey, started, harnessVars, pageVars, viewVars>>

Tick ==
    /\ now' \in {t \in RouteInstants : t > now}
    /\ UNCHANGED <<tz, routeVars, harnessVars, pageVars, viewVars>>

Next ==
    \/ \E r \in Slots, b \in Bodies : Receive(r, b)
    \/ \E r \in Slots : Handle(r)
    \/ \E r \in Slots, reply \in AIReplies : ProviderSettles(r, reply)
    \/ \E r \in Slots : Store(r)
    \/ Tick

Spec == Init /\ [][Next]_vars

\* The steps a request takes without the AI provider.
ServerStep(r) == Handle(r) \/ Store(r)

(***************************************************************************)
(* Views.  The pages and components that aggregate an expense list, each   *)
(* applied to a list that may hold what the store can return: an expense   *)
(* without a category, a Business expense, an unparsable date.             *)
(***************************************************************************)
MaxViewLen == 2     \* longest expense list given to a view

\* stands for `category: null` (no category is named so)
NoCategory == "<null>"

ViewAmounts == {0, 5}
ViewCategories == {"Food", "Business", NoCategory}
\* the month before; the week before; Monday of the current week; the first
\* day of the next month (UTC); a string Date cannot parse
ViewDates == {<<2025, 11, 15>>, <<2025, 12, 24>>, <<2025, 12, 29>>, <<2026, 1, 1>>, <<>>}

ViewExpenses == [amount : ViewAmounts, category : ViewCategories, date : ViewDates]

\* the rows of the store carry their primary key
WithIds(list) ==
    [i \in 1..Len(list) |->
        [id |-> i, amount |-> list[i].amount, category |-> list[i].category,
         date |-> list[i].date]]

ViewLists == UNION {[1..n -> ViewExpenses] : n \in 0..MaxViewLen}

\* analyzeSpendingPatterns reads expense.category.name of every current-month
\* expense: a TypeError when the category is null.
AnalysisThrows(list, t, zone) ==
    \E i \in 1..Len(list) : InMonth(list[i], GetMonth(t, zone), GetFullYear(t, zone), zone)
                            /\ list[i].category = NoCategory

\* how a call of analyzeSpendingPatterns at instant t ends
AnalysisOutcome(list, t, zone) ==
    IF AnalysisThrows(list, t, zone)
    THEN [at |-> t, error |-> TRUE, tips |-> <<>>]
    ELSE [at |-> t, error |-> FALSE, tips |-> AnalyzeSpendingPatterns(list, t, zone)]

\* A JavaScript number that is the result of a / b: finite when b # 0, NaN
\* when a = b = 0, otherwise an infinity.
Quotient(a, b) == <<a, b>>

\* ---- MonthlyPage (src/app/admin/expenses/monthly/page.tsx) ----

\* the month key "NaN-NaN" that an unparsable date is given
InvalidMonthKey == <<0, 0>>

\* `${date.getFullYear()}-${String(date.getMonth() + 1).padStart(2, '0')}`, as
\* <<year, month>>
MonthKey(e, zone) ==
    IF IsDateString(e.date)
    THEN LET date == DateParse(e.date)
         IN  <<GetFullYear(date, zone), GetMonth(date, zone) + 1>>
    ELSE InvalidMonthKey

\* expense.category?.name || 'Uncategorized'
CategoryNameOrUncategorized(e) ==
    IF e.category = NoCategory THEN "Uncategorized" ELSE e.category

\* categories[categoryName].total += amount, .count += 1, the entry made first
\* if it is not there: the entries in the order they were made
AddToCategories(categories, categoryName, amount) ==
    IF \E i \in 1..Len(categories) : categories[i].name = categoryName
    THEN [i \in 1..Len(categories) |->
            IF categories[i].name = categoryName
            THEN [categories[i] EXCEPT !.total = @ + amount, !.count = @ + 1]
            ELSE categories[i]]
    ELSE Append(categories, [name |-> categoryName, total |-> amount, count |-> 1])

\* a step that leaves out the expense whose date is unparsable
AddToGroupedIfDated(grouped, e, zone) ==
    IF ~IsDateString(e.date) THEN grouped
    ELSE LET monthKey == MonthKey(e, zone)
             made == IF \E i \in 1..Len(grouped) : grouped[i].key = monthKey
                     THEN grouped
                     ELSE Append(grouped, [key |-> monthKey, expenses |-> <<>>, total |-> 0,
                                           count |-> 0, categories |-> <<>>])
         IN  [i \in 1..Len(made) |->
                 IF made[i].key = monthKey
                 THEN [made[i] EXCEPT !.expenses = Append(@, e), !.total = @ + e.amount,
                                      !.count = @ + 1]
                 ELSE made[i]]

\* one step of expenses.forEach in monthlyData.  The display name of the month
\* and averagePerDay are not modelled.
AddToGrouped(grouped, e, zone) ==
    LET monthKey == MonthKey(e, zone)
        made == IF \E i \in 1..Len(grouped) : grouped[i].key = monthKey
                THEN grouped
                ELSE Append(grouped, [key |-> monthKey, expenses |-> <<>>, total |-> 0,
                                      count |-> 0, categories |-> <<>>])
    IN  [i \in 1..Len(made) |->
            IF made[i].key = monthKey
            THEN [made[i] EXCEPT
                    !.expenses = Append(@, e),
                    !.total = @ + e.amount,
                    !.count = @ + 1,
                    !.categories = AddToCategories(@, CategoryNameOrUncategorized(e),
                                                   e.amount)]
            ELSE made[i]]

\* monthlyData: the month buckets in the order their keys were made
RECURSIVE MonthlyData(_, _)
MonthlyData(list, zone) ==
    IF list = <<>> THEN <<>>
    ELSE AddToGrouped(MonthlyData(SubSeq(list, 1, Len(list) - 1), zone), list[Len(list)], zone)

\* b.localeCompare(a) < 0, for a before b: the later month first, "NaN-NaN"
\* before every "YYYY-MM" (letters collate after digits)
KeyBefore(a, b) ==
    /\ a # b
    /\ \/ a = InvalidMonthKey
       \/ b # InvalidMonthKey /\ a[1] * 12 + a[2] > b[1] * 12 + b[2]

RECURSIVE SortKeys(_)
SortKeys(keys) ==
    IF keys = {} THEN <<>>
    ELSE LET first == CHOOSE a \in keys : \A b \in keys \ {a} : KeyBefore(a, b)
         IN  <<first>> \o SortKeys(keys \ {first})

SortedMonthKeys(monthlyData) ==
    SortKeys({monthlyData[i].key : i \in 1..Len(monthlyData)})

\* monthlyData[key], <<>> when there is no such bucket or no key
BucketOf(monthlyData, key) ==
    SelectSeq(monthlyData, LAMBDA b : key # <<>> /\ b.key = key[1])

\* a stable sort by total, the larger first
InsertByTotal(sorted, c) ==
    LET k == Cardinality({i \in 1..Len(sorted) : sorted[i].total >= c.total})
    IN  SubSeq(sorted, 1, k) \o <<c>> \o SubSeq(sorted, k + 1, Len(sorted))

RECURSIVE SortByTotal(_)
SortByTotal(list) ==
    IF list = <<>> THEN <<>>
    ELSE InsertByTotal(SortByTotal(SubSeq(list, 1, Len(list) - 1)), list[Len(list)])

\* categorySummary of the selected month
CategorySummary(currentMonthData) ==
    IF currentMonthData = <<>> THEN <<>>
    ELSE SortByTotal([i \in 1..Len(currentMonthData[1].categories) |->
            LET data == currentMonthData[1].categories[i]
            IN  [name |-> data.name, total |-> data.total, count |-> data.count,
                 percentage |-> Quotient(data.total * 100, currentMonthData[1].total)]])

\* getPreviousMonthData: the bucket of the key that follows the selected one in
\* sortedMonthKeys (indexOf is -1 for a key that is not there)
PreviousMonthData(monthlyData, selected) ==
    LET sortedMonthKeys == SortedMonthKeys(monthlyData)
        found == {i \in 1..Len(sortedMonthKeys) : selected = <<sortedMonthKeys[i]>>}
        next == IF found = {} THEN 1 ELSE (CHOOSE i \in found : TRUE) + 1
    IN  IF next <= Len(sortedMonthKeys)
        THEN BucketOf(monthlyData, <<sortedMonthKeys[next]>>)
        ELSE <<>>

\* the "% vs last month" figure of the Total Spent card: <<>> when not shown
VsLastMonth(currentMonthData, previousMonthData) ==
    IF currentMonthData # <<>> /\ previousMonthData # <<>>
    THEN << Quotient((currentMonthData[1].total - previousMonthData[1].total) * 100,
                     previousMonthData[1].total) >>
    ELSE <<>>

\* what MonthlyPage computes for a list and a selected month
MonthlyPageRender(list, zone, selected) ==
    LET monthlyData == MonthlyData(list, zone)
        currentMonthData == BucketOf(monthlyData, selected)
        previousMonthData == PreviousMonthData(monthlyData, selected)
    IN  [component |-> "MonthlyPage",
         monthlyData |-> monthlyData,
         sortedMonthKeys |-> SortedMonthKeys(monthlyData),
         currentMonthData |-> currentMonthData,
         categorySummary |-> CategorySummary(currentMonthData),
         previousMonthData |-> previousMonthData,
         vsLastMonth |-> VsLastMonth(currentMonthData, previousMonthData)]

\* ---- getMonthlyTotals (the AI route) ----

\* monthlyTotals[monthKey] = (monthlyTotals[monthKey] || 0) + expense.amount
AddToTotals(monthlyTotals, e, zone) ==
    LET monthKey == MonthKey(e, zone)
    IN  IF \E i \in 1..Len(monthlyTotals) : monthlyTotals[i].key = monthKey
        THEN [i \in 1..Len(monthlyTotals) |->
                IF monthlyTotals[i].key = monthKey
                THEN [monthlyTotals[i] EXCEPT !.total = @ + e.amount]
                ELSE monthlyTotals[i]]
        ELSE Append(monthlyTotals, [key |-> monthKey, total |-> e.amount])

RECURSIVE GetMonthlyTotals(_, _)
GetMonthlyTotals(list, zone) ==
    IF list = <<>> THEN <<>>
    ELSE AddToTotals(GetMonthlyTotals(SubSeq(list, 1, Len(list) - 1), zone),
                     list[Len(list)], zone)

\* ---- CurrentMonthExpensesChart ----

\* the local calendar day of an expense date, counted in days:
\* toLocaleDateString("en-GB") parsed back field by field (l.152-157)
LocalDay(e, zone) == (DateParse(e.date) + zone) \div 24

\* a step that sets the day to the last amount instead of adding to it
AddToDailyMapLastOnly(dailyMap, e, zone) ==
    LET day == Fields(DateParse(e.date), zone).date
        point == [day |-> day, amount |-> e.amount,
                  amountWithoutBusiness |-> IF e.category = "Business" THEN 0 ELSE e.amount]
    IN  IF \E i \in 1..Len(dailyMap) : dailyMap[i].day = day
        THEN [i \in 1..Len(dailyMap) |-> IF dailyMap[i].day = day THEN point ELSE dailyMap[i]]
        ELSE Append(dailyMap, point)

\* one step of currentMonthExpenses.forEach into dailyMap: the entries in the
\* order they were set
AddToDailyMap(dailyMap, e, zone) ==
    LET day == Fields(DateParse(e.date), zone).date
        amount == e.amount
        isBusinessExpense == e.category = "Business"
    IN  IF \E i \in 1..Len(dailyMap) : dailyMap[i].day = day
        THEN [i \in 1..Len(dailyMap) |->
                IF dailyMap[i].day = day
                THEN [dailyMap[i] EXCEPT
                        !.amount = @ + amount,
                        !.amountWithoutBusiness = IF isBusinessExpense THEN @ ELSE @ + amount]
                ELSE dailyMap[i]]
        ELSE Append(dailyMap, [day |-> day, amount |-> amount,
                               amountWithoutBusiness |->
                                   IF isBusinessExpense THEN 0 ELSE amount])

RECURSIVE DailyMap(_, _)
DailyMap(list, zone) ==
    IF list = <<>> THEN <<>>
    ELSE AddToDailyMap(DailyMap(SubSeq(list, 1, Len(list) - 1), zone), list[Len(list)], zone)

\* result.sort((a, b) => a.day - b.day), a stable sort
InsertByDay(sorted, d) ==
    LET k == Cardinality({i \in 1..Len(sorted) : sorted[i].day <= d.day})
    IN  SubSeq(sorted, 1, k) \o <<d>> \o SubSeq(sorted, k + 1, Len(sorted))

RECURSIVE SortByDay(_)
SortByDay(list) ==
    IF list = <<>> THEN <<>>
    ELSE InsertByDay(SortByDay(SubSeq(list, 1, Len(list) - 1)), list[Len(list)])

\* one step of currentMonthExpenses.forEach into categoryMap
AddToCategoryMap(categoryMap, e, zone) ==
    LET categoryName == e.category
        item == [id |-> e.id, date |-> LocalDay(e, zone), amount |-> e.amount]
    IN  IF \E i \in 1..Len(categoryMap) : categoryMap[i].name = categoryName
        THEN [i \in 1..Len(categoryMap) |->
                IF categoryMap[i].name = categoryName
                THEN [categoryMap[i] EXCEPT !.amount = @ + e.amount,
                                            !.expenses = Append(@, item)]
                ELSE categoryMap[i]]
        ELSE Append(categoryMap, [name |-> categoryName, amount |-> e.amount,
                                  percentage |-> Quotient(0, 1), expenses |-> <<item>>])

RECURSIVE CategoryMap(_, _)
CategoryMap(list, zone) ==
    IF list = <<>> THEN <<>>
    ELSE AddToCategoryMap(CategoryMap(SubSeq(list, 1, Len(list) - 1), zone),
                          list[Len(list)], zone)

\* category.expenses.sort(newest first), a stable sort
InsertByDate(sorted, x) ==
    LET k == Cardinality({i \in 1..Len(sorted) : sorted[i].date >= x.date})
    IN  SubSeq(sorted, 1, k) \o <<x>> \o SubSeq(sorted, k + 1, Len(sorted))

RECURSIVE SortByDate(_)
SortByDate(list) ==
    IF list = <<>> THEN <<>>
    ELSE InsertByDate(SortByDate(SubSeq(list, 1, Len(list) - 1)), list[Len(list)])

\* categoryResults.sort((a, b) => b.amount - a.amount), a stable sort
InsertByAmount(sorted, c) ==
    LET k == Cardinality({i \in 1..Len(sorted) : sorted[i].amount >= c.amount})
    IN  SubSeq(sorted, 1, k) \o <<c>> \o SubSeq(sorted, k + 1, Len(sorted))

RECURSIVE SortByAmount(_)
SortByAmount(list) ==
    IF list = <<>> THEN <<>>
    ELSE InsertByAmount(SortByAmount(SubSeq(list, 1, Len(list) - 1)), list[Len(list)])

\* categoryResults: the percentage of the total and the expenses sorted, then
\* the categories sorted by amount
CategoryResults(categoryMap, total) ==
    SortByAmount([i \in 1..Len(categoryMap) |->
        [categoryMap[i] EXCEPT !.percentage = Quotient(categoryMap[i].amount * 100, total),
                               !.expenses = SortByDate(@)]])

\* displayData
DisplayData(dailySums, include) ==
    [i \in 1..Len(dailySums) |->
        [day |-> dailySums[i].day,
         amount |-> IF include THEN dailySums[i].amount
                    ELSE dailySums[i].amountWithoutBusiness]]

\* displayCategories, of both charts
DisplayCategories(categoryExpenses, totalWithoutBusiness, include) ==
    IF include THEN categoryExpenses
    ELSE LET filteredCategories ==
                 SelectSeq(categoryExpenses, LAMBDA category : category.name # "Business")
         IN  [i \in 1..Len(filteredCategories) |->
                [filteredCategories[i] EXCEPT
                    !.percentage = IF totalWithoutBusiness > 0
                                   THEN Quotient(filteredCategories[i].amount * 100,
                                                 totalWithoutBusiness)
                                   ELSE Quotient(0, 1)]]

\* expense.category.name of null, read for an expense of the current month
\* (l.78), is a TypeError thrown out of the render
MonthChartThrows(list, t, zone) ==
    \E i \in 1..Len(list) : InMonth(list[i], GetMonth(t, zone), GetFullYear(t, zone), zone)
                            /\ list[i].category = NoCategory

\* what CurrentMonthExpensesChart computes and shows at instant t
MonthChartRender(list, t, zone, include) ==
    IF MonthChartThrows(list, t, zone)
    THEN [component |-> "CurrentMonthExpensesChart", error |-> TRUE]
    ELSE LET currentMonthExpenses ==
                 SelectSeq(list, LAMBDA e : InMonth(e, GetMonth(t, zone),
                                                    GetFullYear(t, zone), zone))
             total == SumAmounts(currentMonthExpenses)
             nonBusinessTotal ==
                 SumAmounts(SelectSeq(currentMonthExpenses,
                                      LAMBDA e : e.category # "Business"))
             dailySums == SortByDay(DailyMap(currentMonthExpenses, zone))
             categoryExpenses == CategoryResults(CategoryMap(currentMonthExpenses, zone), total)
         IN  [component |-> "CurrentMonthExpensesChart", error |-> FALSE,
              currentMonthExpenses |-> currentMonthExpenses,
              dailySums |-> dailySums,
              monthTotal |-> total,
              categoryExpenses |-> categoryExpenses,
              totalWithoutBusiness |-> nonBusinessTotal,
              displayData |-> DisplayData(dailySums, include),
              displayCategories |->
                  DisplayCategories(categoryExpenses, nonBusinessTotal, include),
              shownTotal |-> IF include THEN total ELSE nonBusinessTotal]

\* ---- CurrentWeekExpensesChart ----

\* Date.prototype.getDay of instant t in the zone (0 = Sunday); the first day
\* of 2025 is a Wednesday
GetDay(t, zone) == (3 + (t + zone) \div 24) % 7

\* a week start that goes back dayOfWeek - 1 days on every day, Sunday too
WeekStartDayNoSunday(t, zone) == (t + zone) \div 24 - (GetDay(t, zone) - 1)

\* the local day, counted in days, of weekStart: the most recent Monday
WeekStartDay(t, zone) ==
    LET dayOfWeek == GetDay(t, zone)
        daysToSubtract == IF dayOfWeek = 1 THEN 0
                          ELSE IF dayOfWeek = 0 THEN 6 ELSE dayOfWeek - 1
    IN  (t + zone) \div 24 - daysToSubtract

\* getDateString of a date with local calendar fields f
GetDateString(f) == <<f.year, f.month + 1, f.date>>

\* Date.prototype.setDate with a day of month at or past the first: the
\* fields normalised into the following months
RECURSIVE SetDate(_, _)
SetDate(f, date) ==
    IF date <= DaysInMonth(f.year, f.month)
    THEN [year |-> f.year, month |-> f.month, date |-> date]
    ELSE SetDate([year |-> IF f.month = 11 THEN f.year + 1 ELSE f.year,
                  month |-> IF f.month = 11 THEN 0 ELSE f.month + 1,
                  date |-> 1],
                 date - DaysInMonth(f.year, f.month))

\* currentWeekDays / previousWeekDays before the expenses are added
WeekDays(startDay) ==
    LET weekStart == FieldsFrom(2025, 0, startDay)
    IN  [i \in 1..7 |->
            [date |-> GetDateString(SetDate(weekStart, weekStart.date + i - 1)),
             amount |-> 0, amountWithoutBusiness |-> 0]]

\* expenseDate >= weekStart && expenseDate <= weekEnd, from local midnight of
\* the first day to the last millisecond of the seventh; false for an Invalid
\* Date
InWeek(e, startDay, zone) ==
    /\ IsDateString(e.date)
    /\ LET expenseDate == DateParse(e.date)
           weekStart == startDay * 24 - zone
       IN  expenseDate >= weekStart /\ expenseDate <= weekStart + 7 * 24 - 1

\* one step of the forEach over the expenses of a week: the day found by its
\* date string, or nothing added
AddToWeekDays(days, e) ==
    LET expenseDateStr == e.date
        isBusinessExpense == e.category = "Business"
    IN  [i \in 1..Len(days) |->
            IF days[i].date = expenseDateStr
               /\ \A j \in 1..(i - 1) : days[j].date # expenseDateStr
            THEN [days[i] EXCEPT
                    !.amount = @ + e.amount,
                    !.amountWithoutBusiness = IF isBusinessExpense THEN @ ELSE @ + e.amount]
            ELSE days[i]]

RECURSIVE FillWeekDays(_, _)
FillWeekDays(days, list) ==
    IF list = <<>> THEN days
    ELSE AddToWeekDays(FillWeekDays(days, SubSeq(list, 1, Len(list) - 1)), list[Len(list)])

\* currentWeekTotal += expense.amount for every amount that found its day:
\* the sum over the days
RECURSIVE SumOfDays(_, _, _)
SumOfDays(days, n, withoutBusiness) ==
    IF n = 0 THEN 0
    ELSE (IF withoutBusiness THEN days[n].amountWithoutBusiness ELSE days[n].amount)
         + SumOfDays(days, n - 1, withoutBusiness)

WeekTotal(days) == SumOfDays(days, Len(days), FALSE)

WeekTotalWithoutBusiness(days) == SumOfDays(days, Len(days), TRUE)

\* expense.category.name of null, read for an expense of the current or of
\* the previous week (l.201, l.224, l.247), is a TypeError thrown out of the
\* render
WeekChartThrows(list, t, zone) ==
    \E i \in 1..Len(list) :
        /\ list[i].category = NoCategory
        /\ \/ InWeek(list[i], WeekStartDay(t, zone), zone)
           \/ InWeek(list[i], WeekStartDay(t, zone) - 7, zone)

\* the Week-over-Week figure: "N/A" is no figure
WeekOverWeek(activeWeeklyTotal, activePreviousWeekTotal) ==
    IF activePreviousWeekTotal > 0
    THEN << Quotient((activeWeeklyTotal - activePreviousWeekTotal) * 100,
                     activePreviousWeekTotal) >>
    ELSE <<>>

\* what CurrentWeekExpensesChart computes and shows at instant t
WeekChartRender(list, t, zone, include) ==
    IF WeekChartThrows(list, t, zone)
    THEN [component |-> "CurrentWeekExpensesChart", error |-> TRUE]
    ELSE LET weekStart == WeekStartDay(t, zone)
             previousWeekStart == weekStart - 7
             currentWeekExpenses == SelectSeq(list, LAMBDA e : InWeek(e, weekStart, zone))
             previousWeekExpenses ==
                 SelectSeq(list, LAMBDA e : InWeek(e, previousWeekStart, zone))
             currentWeekDays == FillWeekDays(WeekDays(weekStart), currentWeekExpenses)
             previousWeekDays ==
                 FillWeekDays(WeekDays(previousWeekStart), previousWeekExpenses)
             currentWeekTotal == WeekTotal(currentWeekDays)
             previousWeekTotal == WeekTotal(previousWeekDays)
             currentWeekTotalWithoutBusiness == WeekTotalWithoutBusiness(currentWeekDays)
             previousWeekTotalWithoutBusiness == WeekTotalWithoutBusiness(previousWeekDays)
             weeklyCategories ==
                 CategoryResults(CategoryMap(currentWeekExpenses, zone), currentWeekTotal)
             activeWeeklyTotal ==
                 IF include THEN currentWeekTotal ELSE currentWeekTotalWithoutBusiness
             activePreviousWeekTotal ==
                 IF include THEN previousWeekTotal ELSE previousWeekTotalWithoutBusiness
         IN  [component |-> "CurrentWeekExpensesChart", error |-> FALSE,
              currentWeekExpenses |-> currentWeekExpenses,
              currentWeekData |->
                  [i \in 1..7 |->
                      [currentWeek |-> currentWeekDays[i].amount,
                       previousWeek |-> previousWeekDays[i].amount,
                       currentWeekWithoutBusiness |-> currentWeekDays[i].amountWithoutBusiness,
                       previousWeekWithoutBusiness |->
                           previousWeekDays[i].amountWithoutBusiness,
                       currentDate |-> currentWeekDays[i].date,
                       previousDate |-> previousWeekDays[i].date]],
              weeklyTotal |-> currentWeekTotal,
              previousWeekTotal |-> previousWeekTotal,
              weeklyTotalWithoutBusiness |-> currentWeekTotalWithoutBusiness,
              previousWeekTotalWithoutBusiness |-> previousWeekTotalWithoutBusiness,
              weeklyCategories |-> weeklyCategories,
              displayCategories |->
                  DisplayCategories(weeklyCategories, currentWeekTotalWithoutBusiness,
                                    include),
              activeWeeklyTotal |-> activeWeeklyTotal,
              activePreviousWeekTotal |-> activePreviousWeekTotal,
              chartData |->
                  [i \in 1..7 |->
                      [currentWeekDisplay |->
                           IF include THEN currentWeekDays[i].amount
                           ELSE currentWeekDays[i].amountWithoutBusiness,
                       previousWeekDisplay |->
                           IF include THEN previousWeekDays[i].amount
                           ELSE previousWeekDays[i].amountWithoutBusiness]],
              weekOverWeek |-> WeekOverWeek(activeWeeklyTotal, activePreviousWeekTotal)]

InitViews ==
    /\ RouteIdle
    /\ PageIdle
    /\ now = DateParse(<<2025, 12, 31>>) + 20
    /\ tz \in TzOffsets
    /\ aExpenses = <<>>
    /\ aTips = <<>>
    /\ aDone = FALSE
    /\ aAiTips = <<>>
    /\ vExpenses \in {WithIds(l) : l \in ViewLists}
    /\ selectedMonth = <<>>
    /\ includeBusinessExpenses = TRUE
    /\ rendered = <<>>

\* analyzeSpendingPatterns is called on the list ...
CallAnalyze ==
    /\ rendered = <<>>
    /\ rendered' = << [component |-> "analyzeSpendingPatterns",
                       first |-> AnalysisOutcome(vExpenses, now, tz),
                       again |-> <<>>] >>
    /\ UNCHANGED <<now, tz, routeVars, harnessVars, pageVars, vExpenses, selectedMonth,
                   includeBusinessExpenses>>

\* ... and once more, now or later.
CallAnalyzeAgain(t) ==
    /\ rendered # <<>>
    /\ rendered[1].component = "analyzeSpendingPatterns"
    /\ rendered[1].again = <<>>
    /\ t >= now
    /\ now' = t
    /\ rendered' = << [rendered[1] EXCEPT !.again = <<AnalysisOutcome(vExpenses, t, tz)>>] >>
    /\ UNCHANGED <<tz, routeVars, harnessVars, pageVars, vExpenses, selectedMonth,
                   includeBusinessExpenses>>

\* fetchAllExpenses has resolved: setExpenses, the current month selected when
\* there are expenses, and the page rendered.
LoadMonthlyPage ==
    /\ rendered = <<>>
    /\ selectedMonth' = IF vExpenses # <<>>
                        THEN << <<GetFullYear(now, tz), GetMonth(now, tz) + 1>> >>
                        ELSE <<>>
    /\ rendered' = <<MonthlyPageRender(vExpenses, tz, selectedMonth')>>
    /\ UNCHANGED <<now, tz, routeVars, harnessVars, pageVars, vExpenses, includeBusinessExpenses>>

MonthlyPageShown ==
    rendered # <<>> /\ rendered[1].component = "MonthlyPage" /\ vExpenses # <<>>

\* a click on one of the (at most 12) month buttons
SetSelectedMonth(monthKey) ==
    /\ MonthlyPageShown
    /\ \E i \in 1..Len(rendered[1].sortedMonthKeys) :
          i <= 12 /\ rendered[1].sortedMonthKeys[i] = monthKey
    /\ selectedMonth' = <<monthKey>>
    /\ rendered' = <<MonthlyPageRender(vExpenses, tz, selectedMonth')>>
    /\ UNCHANGED <<now, tz, routeVars, harnessVars, pageVars, vExpenses, includeBusinessExpenses>>

\* navigateMonth, behind the previous / next buttons (disabled as canGoPrev and
\* canGoNext say)
NavigateMonth(direction) ==
    /\ MonthlyPageShown
    /\ LET sortedMonthKeys == rendered[1].sortedMonthKeys
           found == {i \in 1..Len(sortedMonthKeys) : selectedMonth = <<sortedMonthKeys[i]>>}
           currentIndex == IF found = {} THEN 0 ELSE CHOOSE i \in found : TRUE
       IN  \/ /\ direction = "prev"
              /\ currentIndex < Len(sortedMonthKeys)
              /\ selectedMonth' = <<sortedMonthKeys[currentIndex + 1]>>
           \/ /\ direction = "next"
              /\ currentIndex > 1
              /\ selectedMonth' = <<sortedMonthKeys[currentIndex - 1]>>
    /\ rendered' = <<MonthlyPageRender(vExpenses, tz, selectedMonth')>>
    /\ UNCHANGED <<now, tz, routeVars, harnessVars, pageVars, vExpenses, includeBusinessExpenses>>

\* generateDailyAITips prepares expenseData.monthlyTotals
CallGetMonthlyTotals ==
    /\ rendered = <<>>
    /\ rendered' = << [component |-> "getMonthlyTotals",
                       monthlyTotals |-> GetMonthlyTotals(vExpenses, tz)] >>
    /\ UNCHANGED <<now, tz, routeVars, harnessVars, pageVars, vExpenses, selectedMonth,
                   includeBusinessExpenses>>

\* the dashboard mounts the chart with the fetched expenses
RenderMonthChart ==
    /\ rendered = <<>>
    /\ rendered' = <<MonthChartRender(vExpenses, now, tz, includeBusinessExpenses)>>
    /\ UNCHANGED <<now, tz, routeVars, harnessVars, pageVars, vExpenses, selectedMonth,
                   includeBusinessExpenses>>

RenderWeekChart ==
    /\ rendered = <<>>
    /\ rendered' = <<WeekChartRender(vExpenses, now, tz, includeBusinessExpenses)>>
    /\ UNCHANGED <<now, tz, routeVars, harnessVars, pageVars, vExpenses, selectedMonth,
                   includeBusinessExpenses>>

ChartShown ==
    /\ rendered # <<>>
    /\ rendered[1].component \in {"CurrentMonthExpensesChart", "CurrentWeekExpensesChart"}
    /\ ~rendered[1].error

\* the switch: setIncludeBusinessExpenses(!includeBusinessExpenses), and the
\* chart rendered again
SetIncludeBusinessExpenses ==
    /\ ChartShown
    /\ includeBusinessExpenses' = ~includeBusinessExpenses
    /\ rendered' = IF rendered[1].component = "CurrentMonthExpensesChart"
                   THEN <<MonthChartRender(vExpenses, now, tz, includeBusinessExpenses')>>
                   ELSE <<WeekChartRender(vExpenses, now, tz, includeBusinessExpenses')>>
    /\ UNCHANGED <<now, tz, routeVars, harnessVars, pageVars, vExpenses, selectedMonth>>

NextViews ==
    \/ CallAnalyze
    \/ \E t \in RouteInstants : CallAnalyzeAgain(t)
    \/ LoadMonthlyPage
    \/ \E monthKey \in {<<y, m>> : y \in {0, 2025, 2026}, m \in 0..12} :
          SetSelectedMonth(monthKey)
    \/ \E direction \in {"prev", "next"} : NavigateMonth(direction)
    \/ CallGetMonthlyTotals

SpecViews == InitViews /\ [][NextViews]_vars

\* The computations with a category breakdown, over the same lists: the
\* heuristic analysis, the monthly grouping and the two charts.
NextCharts ==
    \/ CallAnalyze
    \/ LoadMonthlyPage
    \/ RenderMonthChart
    \/ RenderWeekChart
    \/ SetIncludeBusinessExpenses

SpecCharts == InitViews /\ [][NextCharts]_vars

\* The week chart mounted on each of a run of consecutive days, early and
\* late in the UTC day, with at most one expense.
MaxWeekDays == 14

WeekInstants ==
    {DateParse(<<2025, 12, 25>>) + 24 * d + h : d \in 0..(MaxWeekDays - 1), h \in {1, 20}}

InitWeek ==
    /\ RouteIdle
    /\ PageIdle
    /\ now \in WeekInstants
    /\ tz \in TzOffsets
    /\ aExpenses = <<>>
    /\ aTips = <<>>
    /\ aDone = FALSE
    /\ aAiTips = <<>>
    /\ vExpenses \in {WithIds(l) : l \in {m \in ViewLists : Len(m) <= 1}}
    /\ selectedMonth = <<>>
    /\ includeBusinessExpenses = TRUE
    /\ rendered = <<>>

NextWeek ==
    \/ RenderWeekChart
    \/ SetIncludeBusinessExpenses

SpecWeek == InitWeek /\ [][NextWeek]_vars

(***************************************************************************)
(* fetchAllExpenses of the expenses page and of the monthly page           *)
(***************************************************************************)
PageSize == 1000

\* how many full pages the table may hold
MaxPages == 2

\* table sizes around the multiples of the page size
StoreSizes ==
    {n \in 0..(MaxPages * PageSize + 2) :
        \E k \in 0..MaxPages : n - k * PageSize \in (-2)..2}

StoreRow(i) == [id |-> i, amount |-> i % 3, date |-> <<2025, 12, 24>>, category |-> "Food"]

\* the sum of the amounts of rows lo..hi, by halves
RECURSIVE SumRange(_, _, _)
SumRange(rows, lo, hi) ==
    IF lo > hi THEN 0
    ELSE IF lo = hi THEN rows[lo].amount
    ELSE LET mid == (lo + hi) \div 2
         IN  SumRange(rows, lo, mid) + SumRange(rows, mid + 1, hi)

\* The database function get_daily_expenses is not part of the repository; by
\* its name and its result type DailyExpense = {date, amount} it is taken to
\* return one row per date with the sum of the amounts of that date, in the
\* order in which the dates first occur.
RECURSIVE DailyRows(_, _)
DailyRows(rows, seen) ==
    LET fresh == {i \in 1..Len(rows) : rows[i].date \notin seen}
    IN  IF fresh = {} THEN <<>>
        ELSE LET first == CHOOSE i \in fresh : \A j \in fresh : i <= j
                 ofDate == SelectSeq(rows, LAMBDA r : r.date = rows[first].date)
             IN  <<[date |-> rows[first].date, amount |-> SumRange(ofDate, 1, Len(ofDate))]>>
                 \o DailyRows(rows, seen \cup {rows[first].date})

GetDailyExpenses(rows) == DailyRows(rows, {})

\* a range that leaves out its last row
RangeExclusive(rows, first, last) ==
    SubSeq(rows, first + 1, IF last < Len(rows) THEN last ELSE Len(rows))

\* .range(from, from + pageSize - 1) on the ordered table
Range(rows, first, last) ==
    SubSeq(rows, first + 1, IF last + 1 < Len(rows) THEN last + 1 ELSE Len(rows))

InitLoad ==
    /\ RouteIdle
    /\ ViewIdle
    /\ now = DateParse(<<2025, 12, 31>>) + 20
    /\ tz \in TzOffsets
    /\ aExpenses = <<>>
    /\ aTips = <<>>
    /\ aDone = FALSE
    /\ aAiTips = <<>>
    /\ store \in {[i \in 1..n |-> StoreRow(i)] : n \in StoreSizes}
    /\ page \in {"expenses", "monthly"}
    /\ from = 0
    /\ allExpenses = <<>>
    /\ fetchMore = TRUE
    /\ loading = TRUE
    /\ error = <<>>
    /\ dailyExpenses = <<>>
    /\ requests = <<>>
    /\ edits = <<>>
    /\ ListMounted

\* One turn of the while loop: the page request and what follows its reply up
\* to the next await.  A fetchError is thrown to the catch and the finally; a
\* short page ends the loop, and setExpenses and (monthly page) the default
\* month follow at once.
RequestPage(ok) ==
    /\ loading
    /\ fetchMore
    /\ requests' = Append(requests, from)
    /\ IF ~ok
       THEN /\ error' = <<"Failed to fetch data">>
            /\ loading' = FALSE
            /\ UNCHANGED <<from, allExpenses, fetchMore, vExpenses, selectedMonth>>
       ELSE LET data == Range(store, from, from + PageSize - 1)
                done == Len(data) < PageSize
            IN  /\ allExpenses' = IF Len(data) > 0 THEN allExpenses \o data ELSE allExpenses
                /\ from' = IF Len(data) > 0 THEN from + PageSize ELSE from
                /\ fetchMore' = ~done
                /\ vExpenses' = IF done THEN allExpenses' ELSE vExpenses
                /\ selectedMonth' =
                      IF done /\ page = "monthly" /\ Len(allExpenses') > 0
                      THEN << <<GetFullYear(now, tz), GetMonth(now, tz) + 1>> >>
                      ELSE selectedMonth
                /\ loading' = ~(done /\ page = "monthly")
                /\ error' = error
    /\ UNCHANGED <<now, tz, routeVars, harnessVars, store, page, dailyExpenses,
                   includeBusinessExpenses, rendered, edits, listVars>>

\* expenses page: the awaited get_daily_expenses settles
DailySettles(ok) ==
    /\ page = "expenses"
    /\ loading
    /\ ~fetchMore
    /\ IF ok
       THEN dailyExpenses' = GetDailyExpenses(store) /\ error' = error
       ELSE dailyExpenses' = dailyExpenses /\ error' = <<"Failed to fetch data">>
    /\ loading' = FALSE
    /\ UNCHANGED <<now, tz, routeVars, harnessVars, viewVars, store, page, from,
                   allExpenses, fetchMore, requests, edits, listVars>>

NextLoad ==
    \/ \E ok \in BOOLEAN : RequestPage(ok)
    \/ \E ok \in BOOLEAN : DailySettles(ok)

SpecLoad == InitLoad /\ [][NextLoad]_vars

(***************************************************************************)
(* Deleting and editing an expense, on either page.  Each handler awaits   *)
(* the backend once and then applies a functional state update, so a call  *)
(* is one step.                                                            *)
(***************************************************************************)
MaxEdits == 2       \* delete and update calls in a behaviour
MaxEditLen == 3     \* longest list a page starts with

EditAmounts == {0, 7}
EditDates == {<<2025, 11, 15>>, <<2025, 12, 24>>}

\* the rows the pages start with: the current month, the month before, the
\* current week
EditRow(i) ==
    [id |-> i,
     amount |-> 5,
     category |-> IF i = 2 THEN "Business" ELSE "Food",
     date |-> IF i = 1 THEN <<2025, 12, 24>>
              ELSE IF i = 2 THEN <<2025, 11, 15>> ELSE <<2025, 12, 29>>]

\* every element but the one with this id, by the ids below it as well
WithoutUpTo(list, id) == SelectSeq(list, LAMBDA expense : expense.id > id)

\* prev.filter((expense) => expense.id !== id)
Without(list, id) == SelectSeq(list, LAMBDA expense : expense.id # id)

\* the update put in front of the list
ReplacedFirst(list, updatedExpense) ==
    [i \in 1..Len(list) |-> IF i = 1 THEN updatedExpense ELSE list[i]]

\* prev.map((expense) => (expense.id === updatedExpense.id ? updatedExpense : expense))
Replaced(list, updatedExpense) ==
    [i \in 1..Len(list) |->
        IF list[i].id = updatedExpense.id THEN updatedExpense ELSE list[i]]

\* the page is past its loading, error and "No expenses found" returns
PageShown ==
    /\ page \in {"expenses", "monthly"}
    /\ ~loading
    /\ error = <<>>
    /\ vExpenses # <<>>

\* the expenses given to ExpensesList, whose rows carry the Edit and Delete
\* buttons: all of them on the expenses page, currentMonthData.expenses on
\* the monthly page
ListedExpenses ==
    IF page = "monthly"
    THEN IF rendered # <<>> /\ rendered[1].currentMonthData # <<>>
         THEN rendered[1].currentMonthData[1].expenses
         ELSE <<>>
    ELSE vExpenses

\* what the monthly page computes when its state has changed
Rerendered(list, err) ==
    IF page = "monthly" /\ err = <<>> /\ list # <<>>
    THEN <<MonthlyPageRender(list, tz, selectedMonth)>>
    ELSE <<>>

InitEdit ==
    /\ RouteIdle
    /\ now = DateParse(<<2025, 12, 31>>) + 20
    /\ tz \in TzOffsets
    /\ aExpenses = <<>>
    /\ aTips = <<>>
    /\ aDone = FALSE
    /\ aAiTips = <<>>
    /\ store \in {[i \in 1..n |-> EditRow(i)] : n \in 0..MaxEditLen}
    /\ page \in {"expenses", "monthly"}
    /\ vExpenses = store
    /\ allExpenses = store
    /\ from = IF store = <<>> THEN 0 ELSE PageSize
    /\ requests = <<0>>
    /\ fetchMore = FALSE
    /\ loading = FALSE
    /\ error = <<>>
    /\ dailyExpenses = IF page = "expenses" THEN GetDailyExpenses(store) ELSE <<>>
    /\ selectedMonth = IF page = "monthly" /\ store # <<>>
                       THEN << <<GetFullYear(now, tz), GetMonth(now, tz) + 1>> >>
                       ELSE <<>>
    /\ rendered = Rerendered(vExpenses, error)
    /\ includeBusinessExpenses = TRUE
    /\ edits = <<>>
    /\ ListMounted

\* handleDelete: supabase delete().eq("id", id), then the filter, or setError
HandleDelete(id, ok) ==
    /\ PageShown
    /\ Len(edits) < MaxEdits
    /\ \E i \in 1..Len(ListedExpenses) : ListedExpenses[i].id = id
    /\ edits' = Append(edits, [op |-> "delete", id |-> id, ok |-> ok])
    /\ IF ok
       THEN /\ store' = Without(store, id)
            /\ vExpenses' = Without(vExpenses, id)
            /\ error' = error
       ELSE /\ error' = <<"error.message">>
            /\ UNCHANGED <<store, vExpenses>>
    /\ rendered' = Rerendered(vExpenses', error')
    /\ UNCHANGED <<now, tz, routeVars, harnessVars, selectedMonth, includeBusinessExpenses,
                   page, from, allExpenses, fetchMore, loading, dailyExpenses, requests,
                   listVars>>

\* handleUpdate: supabase update({comment, amount, date}).eq("id", ...), then
\* the map, or setError
HandleUpdate(updatedExpense, ok) ==
    /\ PageShown
    /\ Len(edits) < MaxEdits
    /\ \E i \in 1..Len(ListedExpenses) :
          /\ ListedExpenses[i].id = updatedExpense.id
          /\ ListedExpenses[i].category = updatedExpense.category
    /\ edits' = Append(edits, [op |-> "update", id |-> updatedExpense.id, ok |-> ok])
    /\ IF ok
       THEN /\ store' = [i \in 1..Len(store) |->
                            IF store[i].id = updatedExpense.id
                            THEN [store[i] EXCEPT !.amount = updatedExpense.amount,
                                                  !.date = updatedExpense.date]
                            ELSE store[i]]
            /\ vExpenses' = Replaced(vExpenses, updatedExpense)
            /\ error' = error
       ELSE /\ error' = <<"error.message">>
            /\ UNCHANGED <<store, vExpenses>>
    /\ rendered' = Rerendered(vExpenses', error')
    /\ UNCHANGED <<now, tz, routeVars, harnessVars, selectedMonth, includeBusinessExpenses,
                   page, from, allExpenses, fetchMore, loading, dailyExpenses, requests,
                   listVars>>

\* what the edit form of a row can hand to onUpdate: the row with another
\* amount and date
EditedExpenses ==
    {[id |-> i, amount |-> a, category |-> c, date |-> d] :
        i \in 1..MaxEditLen, a \in EditAmounts, c \in {"Food", "Business"},
        d \in EditDates}

\* ---- the aggregates of the expenses page ----

\* AllExpensesChart with its initial range 'all': filterExpenses returns the
\* rows as they are, periodTotal is the reduce over their amounts
PeriodTotal(expenses) == SumRange(expenses, 1, Len(expenses))

\* ExpensesList with no date range: totalAmount, the reduce over the list
TotalAmount(expenses) == SumRange(expenses, 1, Len(expenses))

\* monthlyMap[yearMonth] += expense.amount, or = expense.amount when the entry
\* is missing or 0
AddToMonthlyMap(monthlyMap, expense, zone) ==
    LET yearMonth == MonthKey(expense, zone)
    IN  IF \E i \in 1..Len(monthlyMap) :
              monthlyMap[i].sortKey = yearMonth /\ monthlyMap[i].totalAmount # 0
        THEN [i \in 1..Len(monthlyMap) |->
                IF monthlyMap[i].sortKey = yearMonth
                THEN [monthlyMap[i] EXCEPT !.totalAmount = @ + expense.amount]
                ELSE monthlyMap[i]]
        ELSE IF \E i \in 1..Len(monthlyMap) : monthlyMap[i].sortKey = yearMonth
        THEN [i \in 1..Len(monthlyMap) |->
                IF monthlyMap[i].sortKey = yearMonth
                THEN [monthlyMap[i] EXCEPT !.totalAmount = expense.amount]
                ELSE monthlyMap[i]]
        ELSE Append(monthlyMap, [sortKey |-> yearMonth, totalAmount |-> expense.amount])

RECURSIVE MonthlyMap(_, _)
MonthlyMap(expenses, zone) ==
    IF expenses = <<>> THEN <<>>
    ELSE AddToMonthlyMap(MonthlyMap(SubSeq(expenses, 1, Len(expenses) - 1), zone),
                         expenses[Len(expenses)], zone)

\* MonthlyExpensesChart: the month totals, sorted by sortKey ascending (the
\* keys of a map are distinct)
AggregateMonthlyExpenses(expenses, zone) ==
    LET monthlyMap == MonthlyMap(expenses, zone)
        descending == SortKeys({monthlyMap[i].sortKey : i \in 1..Len(monthlyMap)})
    IN  [k \in 1..Len(monthlyMap) |->
            LET key == descending[Len(monthlyMap) + 1 - k]
                i == CHOOSE i \in 1..Len(monthlyMap) : monthlyMap[i].sortKey = key
            IN  monthlyMap[i]]

NextEdit ==
    \/ \E id \in 1..MaxEditLen, ok \in BOOLEAN : HandleDelete(id, ok)
    \/ \E updatedExpense \in EditedExpenses, ok \in BOOLEAN : HandleUpdate(updatedExpense, ok)
    \/ \E monthKey \in {<<y, m>> : y \in {2025, 2026}, m \in {1, 11, 12}} :
          SetSelectedMonth(monthKey)
    \/ \E direction \in {"prev", "next"} : NavigateMonth(direction)

SpecEdit == InitEdit /\ [][NextEdit]_vars

(***************************************************************************)
(* The paginated ExpensesList on the expenses page: date range, sort and   *)
(* pages over the `expenses` it is given.                                  *)
(***************************************************************************)
ITEMS_PER_PAGE == 50

\* how many full pages the list may start with
MaxListPages == 1

\* how many rows are deleted while the list is shown
MaxListEdits == 1

\* list lengths at and just over the multiples of the page length
ListSizes == {k * ITEMS_PER_PAGE + j : k \in 0..MaxListPages, j \in {0, 1}}

\* how many rows are dated in the current month; the query orders by date,
\* the later first
RecentRows == 26

ListRow(i) ==
    [id |-> i,
     amount |-> i % 3,
     category |-> IF i % 5 = 0 THEN "Business" ELSE "Food",
     date |-> IF i <= RecentRows THEN <<2025, 12, 24>> ELSE <<2025, 11, 15>>]

\* what the date inputs are set to
RangeStarts == {<<>>, << <<2025, 12, 1>> >>}
RangeEnds == {<<>>, << <<2025, 11, 30>> >>}

\* new Date("YYYY-MM-DD") followed by setHours(0, 0, 0, 0): the start of the
\* local day that holds the UTC midnight of the date
StartOfDay(date, zone) == ((DateParse(date) + zone) \div 24) * 24 - zone

\* the date-range filters; endDate is the last millisecond of its local day,
\* and every instant compared with it is a whole hour
FilterByRange(expenses, start, end, zone) ==
    LET fromStart == IF start = <<>> THEN expenses
                     ELSE SelectSeq(expenses, LAMBDA expense :
                              DateParse(expense.date) >= StartOfDay(start[1], zone))
    IN  IF end = <<>> THEN fromStart
        ELSE SelectSeq(fromStart, LAMBDA expense :
                 DateParse(expense.date) < StartOfDay(end[1], zone) + 24)

\* the order of the lower-cased category names (and '' for none) under <
LowerCaseOrder(category) ==
    CASE category = NoCategory -> 0
      [] category = "Business" -> 1
      [] category = "Food" -> 2

\* compareA / compareB of the sort callback, as a number
CompareKey(expense, field) ==
    CASE field = "amount" -> expense.amount
      [] field = "category" -> LowerCaseOrder(expense.category)
      [] field = "date" -> DateParse(expense.date)

\* the elements whose key is among keys, key by key in the order of the
\* direction, the elements of one key in the order they had
RECURSIVE ByKeys(_, _, _, _)
ByKeys(list, field, direction, keys) ==
    IF keys = {} THEN <<>>
    ELSE LET first == IF direction = "asc"
                      THEN CHOOSE k \in keys : \A other \in keys : k <= other
                      ELSE CHOOSE k \in keys : \A other \in keys : k >= other
         IN  SelectSeq(list, LAMBDA expense : CompareKey(expense, field) = first)
             \o ByKeys(list, field, direction, keys \ {first})

\* [...result].sort(...): Array.prototype.sort is stable
Sorted(list, field, direction) ==
    ByKeys(list, field, direction, {CompareKey(list[i], field) : i \in 1..Len(list)})

FilteredAndSortedExpenses(expenses, start, end, field, direction, zone) ==
    Sorted(FilterByRange(expenses, start, end, zone), field, direction)

\* Math.ceil(length / ITEMS_PER_PAGE)
TotalPages(length) == (length + ITEMS_PER_PAGE - 1) \div ITEMS_PER_PAGE

\* filteredAndSortedExpenses.slice(startIndex, endIndex)
PaginatedExpenses(filtered, pageNumber) ==
    Slice(filtered, (pageNumber - 1) * ITEMS_PER_PAGE,
          (pageNumber - 1) * ITEMS_PER_PAGE + ITEMS_PER_PAGE)

\* pageTotal of the page shown
PageTotal(filtered, pageNumber) ==
    LET paginatedExpenses == PaginatedExpenses(filtered, pageNumber)
    IN  SumRange(paginatedExpenses, 1, Len(paginatedExpenses))

\* getPageNumbers, with 0 for the '...' entries
GetPageNumbers(totalPages, pageNumber) ==
    IF totalPages <= 5 THEN [i \in 1..totalPages |-> i]
    ELSE IF pageNumber <= 3 THEN <<1, 2, 3, 4, 0, totalPages>>
    ELSE IF pageNumber >= totalPages - 2
    THEN <<1, 0, totalPages - 3, totalPages - 2, totalPages - 1, totalPages>>
    ELSE <<1, 0, pageNumber - 1, pageNumber, pageNumber + 1, 0, totalPages>>

\* the list as the component holds it now
ShownList ==
    FilteredAndSortedExpenses(vExpenses, dateRangeStart, dateRangeEnd, sortField,
                              sortDirection, tz)

ShownTotalPages == TotalPages(Len(ShownList))

\* ExpensesList is mounted by the expenses page
ListShown == page = "expenses" /\ PageShown

InitList ==
    /\ RouteIdle
    /\ now = DateParse(<<2025, 12, 31>>) + 20
    /\ tz \in TzOffsets
    /\ aExpenses = <<>>
    /\ aTips = <<>>
    /\ aDone = FALSE
    /\ aAiTips = <<>>
    /\ store \in {[i \in 1..n |-> ListRow(i)] : n \in ListSizes}
    /\ page = "expenses"
    /\ vExpenses = store
    /\ allExpenses = store
    /\ from = IF store = <<>> THEN 0 ELSE PageSize
    /\ requests = <<0>>
    /\ fetchMore = FALSE
    /\ loading = FALSE
    /\ error = <<>>
    /\ dailyExpenses = GetDailyExpenses(store)
    /\ selectedMonth = <<>>
    /\ rendered = <<>>
    /\ includeBusinessExpenses = TRUE
    /\ edits = <<>>
    /\ ListMounted

listFrame == <<now, tz, routeVars, harnessVars, viewVars, store, page, from, allExpenses,
               fetchMore, loading, error, dailyExpenses, requests, edits>>

\* handleSort, behind the three column headers
HandleSort(field) ==
    /\ ListShown
    /\ IF sortField = field
       THEN /\ sortDirection' = IF sortDirection = "asc" THEN "desc" ELSE "asc"
            /\ sortField' = sortField
       ELSE /\ sortField' = field
            /\ sortDirection' = "asc"
    /\ currentPage' = 1
    /\ UNCHANGED <<listFrame, dateRangeStart, dateRangeEnd>>

\* onChange of the From input
SetDateRangeStart(value) ==
    /\ ListShown
    /\ dateRangeStart' = value
    /\ currentPage' = 1
    /\ UNCHANGED <<listFrame, sortField, sortDirection, dateRangeEnd>>

\* onChange of the To input
SetDateRangeEnd(value) ==
    /\ ListShown
    /\ dateRangeEnd' = value
    /\ currentPage' = 1
    /\ UNCHANGED <<listFrame, sortField, sortDirection, dateRangeStart>>

HandleClearDateRange ==
    /\ ListShown
    /\ dateRangeStart' = <<>>
    /\ dateRangeEnd' = <<>>
    /\ currentPage' = 1
    /\ UNCHANGED <<listFrame, sortField, sortDirection>>

\* goToPage, behind the numbered buttons (rendered when totalPages > 1)
GoToPage(pageNumber) ==
    /\ ListShown
    /\ ShownTotalPages > 1
    /\ pageNumber # 0
    /\ \E i \in DOMAIN GetPageNumbers(ShownTotalPages, currentPage) :
          GetPageNumbers(ShownTotalPages, currentPage)[i] = pageNumber
    /\ currentPage' = pageNumber
    /\ UNCHANGED <<listFrame, sortField, sortDirection, dateRangeStart, dateRangeEnd>>

\* goToPrevPage (the button is disabled on page 1)
GoToPrevPage ==
    /\ ListShown
    /\ ShownTotalPages > 1
    /\ currentPage # 1
    /\ currentPage' = IF currentPage > 1 THEN currentPage - 1 ELSE currentPage
    /\ UNCHANGED <<listFrame, sortField, sortDirection, dateRangeStart, dateRangeEnd>>

\* goToNextPage (the button is disabled on page totalPages)
GoToNextPage ==
    /\ ListShown
    /\ ShownTotalPages > 1
    /\ currentPage # ShownTotalPages
    /\ currentPage' = IF currentPage < ShownTotalPages THEN currentPage + 1
                      ELSE currentPage
    /\ UNCHANGED <<listFrame, sortField, sortDirection, dateRangeStart, dateRangeEnd>>

\* the Delete button of the last row of the page shown is pressed
DeleteLastShown(ok) ==
    /\ ListShown
    /\ Len(edits) < MaxListEdits
    /\ LET paginatedExpenses == PaginatedExpenses(ShownList, currentPage)
       IN  /\ paginatedExpenses # <<>>
           /\ HandleDelete(paginatedExpenses[Len(paginatedExpenses)].id, ok)

NextList ==
    \/ \E field \in {"amount", "category", "date"} : HandleSort(field)
    \/ \E value \in RangeStarts : SetDateRangeStart(value)
    \/ \E value \in RangeEnds : SetDateRangeEnd(value)
    \/ HandleClearDateRange
    \/ \E pageNumber \in 1..(MaxListPages + 1) : GoToPage(pageNumber)
    \/ GoToPrevPage
    \/ GoToNextPage
    \/ \E ok \in BOOLEAN : DeleteLastShown(ok)

SpecList == InitList /\ [][NextList]_vars

(***************************************************************************)
(* Properties of the route                                                 *)
(***************************************************************************)
InFlight(r) == pc[r] \in {"fetch", "generated"}

\* two instants fall on the same calendar day of the zone
SameLocalDay(a, b, zone) == (a + zone) \div 24 = (b + zone) \div 24

\* C1: with a cache present, the staleness check lets a request be served from
\* the cache exactly when the clock still shows the calendar day on which the
\* cache was stored and the request's expense count is within 5 of the cached
\* count; otherwise the request regenerates.
C1_StalenessRule ==
    [][\A r \in Slots :
          (pc[r] = "json" /\ body[r].kind = "array" /\ dailyTipsCache # <<>> /\ pc'[r] # "json")
          => ( (pc'[r] = "idle" /\ response'.status = 200 /\ response'.cached)
               <=> ( /\ SameLocalDay(now, storedAt, tz)
                     /\ Abs(Len(body[r].expenses) - dailyTipsCache[1].expenseCount) <= 5 ) )
      ]_vars

\* a request whose count differs by exactly 5 from the cached count was served
\* from the cache
C1_Witness ==
    /\ response.status = 200
    /\ response.cached
    /\ dailyTipsCache # <<>>
    /\ Abs(response.expenseCount - dailyTipsCache[1].expenseCount) = 5

C3_GuardedRegeneration ==
    \A r1 \in Slots, r2 \in Slots :
        (r1 # r2 /\ InFlight(r1) /\ InFlight(r2)) => seenGen[r1] # seenGen[r2]

C5_TimeoutEndsWait == \A r \in Slots : pc[r] = "fetch" => ENABLED ServerStep(r)

\* C6: a request whose expenses are missing or not an array is answered at once
\* with status 400 and an error field, never reaches the AI provider and
\* leaves the cache as it was; an array, the empty one included, is never
\* answered with 400.
C6_InputValidation ==
    [][\A r \in Slots :
          (pc[r] = "json" /\ pc'[r] # "json")
          => /\ body[r].kind \in {"missing", "not-array"}
                => /\ pc'[r] = "idle"
                   /\ response'.status = 400
                   /\ "error" \in DOMAIN response'
                   /\ dailyTipsCache' = dailyTipsCache
             /\ body[r].kind = "array"
                => ~(pc'[r] = "idle" /\ response'.status = 400)
      ]_vars

\* an empty array was accepted and cached, and a later invalid request was
\* refused with the cache still in place
C6_Witness ==
    /\ response.status = 400
    /\ dailyTipsCache # <<>>
    /\ dailyTipsCache[1].expenseCount = 0

\* C8: every successful response carries exactly 3 tips.
C8_ExactlyThreeTips == response.status = 200 => Len(response.tips) = 3

\* C26: a response with cached = true carries the tips and the generation
\* time of the cache as it stands, the cache is the one written by the last
\* store (whose response carried the same tips), that store was made on the
\* same local calendar day, the expense counts differ by at most 5, and the
\* step that serves it starts no AI call and leaves the cache as it is.
C26_CachedProvenance ==
    [][ /\ cacheGen' # cacheGen =>
              /\ dailyTipsCache' # <<>>
              /\ response'.status = 200 /\ ~response'.cached
              /\ dailyTipsCache'[1].tips = response'.tips
              /\ storedAt' = now
        /\ cacheGen' = cacheGen => dailyTipsCache' = dailyTipsCache
        /\ \A r \in Slots :
              (pc[r] = "json" /\ pc'[r] = "idle" /\ response'.status = 200
               /\ response'.cached) =>
                  /\ dailyTipsCache # <<>>
                  /\ cacheGen > 0
                  /\ response'.tips = dailyTipsCache[1].tips
                  /\ response'.timestamp = dailyTipsCache[1].generatedDate
                  /\ response'.timestamp = ToISOString(storedAt)
                  /\ SameLocalDay(storedAt, now, tz)
                  /\ Abs(response'.expenseCount - dailyTipsCache[1].expenseCount) <= 5
                  /\ response'.expenseCount = Len(body[r].expenses)
                  /\ aiOutcome[r] = "none" /\ aiOutcome'[r] = "none"
                  /\ UNCHANGED <<dailyTipsCache, cacheGen, storedAt>> ]_vars

\* a cached response served at a later instant of the day of the store, to a
\* request with another number of expenses
C26_Witness ==
    /\ response.status = 200
    /\ response.cached
    /\ dailyTipsCache # <<>>
    /\ response.tips = dailyTipsCache[1].tips
    /\ response.expenseCount # dailyTipsCache[1].expenseCount
    /\ now # storedAt

(***************************************************************************)
(* Properties of the heuristic generator                                   *)
(***************************************************************************)
\* the months counted from year 0, so that the month before is one less
MonthOrdinal(t, zone) == GetFullYear(t, zone) * 12 + GetMonth(t, zone)

\* the positions of the expenses dated in the month of the ordinal
DatedIn(list, ordinal, zone) ==
    {i \in 1..Len(list) :
        Len(list[i].date) = 3 /\ MonthOrdinal(DateParse(list[i].date), zone) = ordinal}

RECURSIVE TotalAt(_, _)
TotalAt(list, positions) ==
    IF positions = {} THEN 0
    ELSE LET i == CHOOSE x \in positions : TRUE
         IN  list[i].amount + TotalAt(list, positions \ {i})

TipsWithId(list, id) == {i \in 1..Len(list) : list[i].id = id}

ImpactRank(tip) == IF tip.impact = "high" THEN 0 ELSE IF tip.impact = "medium" THEN 1 ELSE 2

RuleRank(tip) ==
    IF tip.id = "highest-category" THEN 0 ELSE IF tip.id = "month-comparison" THEN 1 ELSE 2

C9_MonthComparisonRule ==
    aDone =>
        LET cur == TotalAt(aExpenses, DatedIn(aExpenses, MonthOrdinal(now, tz), tz))
            prev == TotalAt(aExpenses, DatedIn(aExpenses, MonthOrdinal(now, tz) - 1, tz))
            found == TipsWithId(aTips, "month-comparison")
        IN  /\ (found # {}) <=> (prev > 0 /\ Abs(cur - prev) * 100 > 10 * prev)
            /\ Cardinality(found) <= 1
            /\ \A i \in found :
                  /\ aTips[i].type = (IF cur > prev THEN "warning" ELSE "achievement")
                  /\ aTips[i].impact = (IF Abs(cur - prev) * 100 > 25 * prev
                                        THEN "high" ELSE "medium")
                  /\ aTips[i].actionable = (cur > prev)
                  /\ aTips[i].savings = (IF cur < prev THEN <<prev - cur>> ELSE <<>>)

\* in January, against December of the year before: spending rose by more than
\* 25 percent
C9_Witness ==
    /\ aDone
    /\ GetMonth(now, tz) = 0
    /\ \E i \in 1..Len(aTips) :
          /\ aTips[i].id = "month-comparison"
          /\ aTips[i].type = "warning"
          /\ aTips[i].impact = "high"
          /\ aTips[i].actionable
          /\ aTips[i].savings = <<>>

\* C10: counting the current-month expenses of amount < 10, the small-purchases
\* tip is returned iff there are more than 10 of them and their sum exceeds
\* 30; it is an opportunity of impact medium, actionable, with savings the
\* integer nearest to a quarter of the sum.
C10_SmallPurchasesRule ==
    aDone =>
        LET small == {i \in DatedIn(aExpenses, MonthOrdinal(now, tz), tz) :
                        aExpenses[i].amount < 10}
            sum == TotalAt(aExpenses, small)
            found == TipsWithId(aTips, "small-purchases")
        IN  /\ (found # {}) <=> (Cardinality(small) > 10 /\ sum > 30)
            /\ Cardinality(found) <= 1
            /\ \A i \in found :
                  /\ aTips[i].type = "opportunity"
                  /\ aTips[i].impact = "medium"
                  /\ aTips[i].actionable
                  /\ Len(aTips[i].savings) = 1
                  /\ Abs(4 * aTips[i].savings[1] - sum) <= 2

\* 11 expenses of 3 in the current month: savings 8
C10_Witness ==
    /\ aDone
    /\ Len(aExpenses) = 11
    /\ \A i \in 1..11 : aExpenses[i].amount = 3
    /\ \E i \in 1..Len(aTips) : aTips[i].id = "small-purchases" /\ aTips[i].savings = <<8>>

\* the total of one category among the expenses at the given positions
CategoryTotalAt(list, positions, c) ==
    TotalAt(list, {i \in positions : list[i].category = c})

\* C11: the highest-category tip (an insight of impact medium) is returned iff
\* some category has a current-month total > 0; the category it names has a
\* current-month total >= that of every category; and the tip is the one the
\* generator returns for the current-month expenses alone.
C11_HighestCategoryRule ==
    aDone =>
        LET current == DatedIn(aExpenses, MonthOrdinal(now, tz), tz)
            found == TipsWithId(aTips, "highest-category")
            alone == AnalyzeSpendingPatterns(
                         SelectSeq(aExpenses,
                                   LAMBDA e : /\ Len(e.date) = 3
                                              /\ MonthOrdinal(DateParse(e.date), tz)
                                                     = MonthOrdinal(now, tz)),
                         now, tz)
        IN  /\ (found # {}) <=> (\E c \in Categories : CategoryTotalAt(aExpenses, current, c) > 0)
            /\ Cardinality(found) <= 1
            /\ \A i \in found :
                  /\ aTips[i].type = "insight"
                  /\ aTips[i].impact = "medium"
                  /\ Len(aTips[i].category) = 1
                  /\ \A c \in Categories :
                        CategoryTotalAt(aExpenses, current, aTips[i].category[1])
                            >= CategoryTotalAt(aExpenses, current, c)
                  /\ \E j \in TipsWithId(alone, "highest-category") : alone[j] = aTips[i]

\* the tip names Rent, the only category of the current month, although Food
\* has the larger total over all months
C11_Witness ==
    /\ aDone
    /\ \E i \in 1..Len(aTips) :
          aTips[i].id = "highest-category" /\ aTips[i].category = <<"Rent">>
    /\ CategoryTotalAt(aExpenses, 1..Len(aExpenses), "Food")
          > CategoryTotalAt(aExpenses, 1..Len(aExpenses), "Rent")

(***************************************************************************)
(* Properties of the views                                                 *)
(***************************************************************************)
Analyzed == rendered # <<>> /\ rendered[1].component = "analyzeSpendingPatterns"

\* C12: two calls of the heuristic generator on the same list at instants of
\* the same calendar day end alike, with the same tips in the same order;
\* and the id of every tip is the name of its rule.
C12_Deterministic ==
    (Analyzed /\ rendered[1].again # <<>>) =>
        LET first == rendered[1].first
            again == rendered[1].again[1]
        IN  /\ SameLocalDay(first.at, again.at, tz)
               => (again.error = first.error /\ again.tips = first.tips)
            /\ \A o \in {first, again} : \A i \in 1..Len(o.tips) :
                  o.tips[i].id \in {"highest-category", "month-comparison", "small-purchases"}

\* the second call came hours later on the same day and returned tips again
C12_Witness ==
    /\ Analyzed
    /\ rendered[1].again # <<>>
    /\ rendered[1].again[1].at > rendered[1].first.at
    /\ SameLocalDay(rendered[1].first.at, rendered[1].again[1].at, tz)
    /\ Len(rendered[1].again[1].tips) > 0

MonthlyRendered == rendered # <<>> /\ rendered[1].component = "MonthlyPage"

TotalsRendered == rendered # <<>> /\ rendered[1].component = "getMonthlyTotals"

\* the sum of f[i] over the positions of a sequence
RECURSIVE SumOver(_, _)
SumOver(f, n) == IF n = 0 THEN 0 ELSE f[n] + SumOver(f, n - 1)

\* C14: in monthlyData every expense of the list is in the expense list of
\* exactly one bucket, once; the bucket counts add up to the length of the
\* list and the bucket totals to the sum of all amounts; and the totals of
\* getMonthlyTotals, one per key, add up to the sum of all amounts.
C14_MonthBucketsPartition ==
    /\ MonthlyRendered =>
          LET monthlyData == rendered[1].monthlyData
          IN  /\ \A i \in 1..Len(vExpenses) :
                    Cardinality({<<b, j>> \in (1..Len(monthlyData)) \X (1..Len(vExpenses)) :
                                    /\ j <= Len(monthlyData[b].expenses)
                                    /\ monthlyData[b].expenses[j] = vExpenses[i]}) = 1
              /\ \A b \in 1..Len(monthlyData), c \in 1..Len(monthlyData) :
                    b # c => monthlyData[b].key # monthlyData[c].key
              /\ \A b \in 1..Len(monthlyData) :
                    monthlyData[b].count = Len(monthlyData[b].expenses)
              /\ SumOver([b \in 1..Len(monthlyData) |-> monthlyData[b].count],
                         Len(monthlyData)) = Len(vExpenses)
              /\ SumOver([b \in 1..Len(monthlyData) |-> monthlyData[b].total],
                         Len(monthlyData))
                    = SumOver([i \in 1..Len(vExpenses) |-> vExpenses[i].amount],
                              Len(vExpenses))
    /\ TotalsRendered =>
          LET monthlyTotals == rendered[1].monthlyTotals
          IN  /\ \A b \in 1..Len(monthlyTotals), c \in 1..Len(monthlyTotals) :
                    b # c => monthlyTotals[b].key # monthlyTotals[c].key
              /\ SumOver([b \in 1..Len(monthlyTotals) |-> monthlyTotals[b].total],
                         Len(monthlyTotals))
                    = SumOver([i \in 1..Len(vExpenses) |-> vExpenses[i].amount],
                              Len(vExpenses))

\* two expenses, one of them without a parsable date, grouped into two buckets
C14_Witness ==
    /\ MonthlyRendered
    /\ Len(vExpenses) = 2
    /\ Len(rendered[1].monthlyData) = 2
    /\ \E i \in 1..2 : vExpenses[i].date = <<>> /\ vExpenses[i].amount > 0

\* C15: an expense with an unparsable date makes no bucket and is in no
\* bucket of monthlyData, and makes no key in the totals of getMonthlyTotals.
C15_UnparsableDateExcluded ==
    /\ MonthlyRendered =>
          \A b \in 1..Len(rendered[1].monthlyData) :
              /\ rendered[1].monthlyData[b].key # InvalidMonthKey
              /\ \A j \in 1..Len(rendered[1].monthlyData[b].expenses) :
                    rendered[1].monthlyData[b].expenses[j].date # <<>>
    /\ TotalsRendered =>
          \A b \in 1..Len(rendered[1].monthlyTotals) :
              rendered[1].monthlyTotals[b].key # InvalidMonthKey

MonthChartShown ==
    rendered # <<>> /\ rendered[1].component = "CurrentMonthExpensesChart"
    /\ ~rendered[1].error

WeekChartShown ==
    rendered # <<>> /\ rendered[1].component = "CurrentWeekExpensesChart"
    /\ ~rendered[1].error

\* C16: in every bucket of monthlyData the category totals add up to the
\* bucket total and the category counts to the bucket count; in the
\* current-month chart the category amounts and the daily sums each add up to
\* the month total, every expense of the month is listed under one category,
\* and the day points shown add up to the total shown.
C16_TotalsReconcile ==
    /\ MonthlyRendered =>
          \A b \in 1..Len(rendered[1].monthlyData) :
              LET bucket == rendered[1].monthlyData[b]
                  n == Len(bucket.categories)
              IN  /\ SumOver([i \in 1..n |-> bucket.categories[i].total], n) = bucket.total
                  /\ SumOver([i \in 1..n |-> bucket.categories[i].count], n) = bucket.count
    /\ MonthChartShown =>
          LET r == rendered[1]
              n == Len(r.categoryExpenses)
              d == Len(r.dailySums)
          IN  /\ SumOver([i \in 1..n |-> r.categoryExpenses[i].amount], n) = r.monthTotal
              /\ SumOver([i \in 1..n |-> Len(r.categoryExpenses[i].expenses)], n)
                    = Len(r.currentMonthExpenses)
              /\ SumOver([i \in 1..d |-> r.dailySums[i].amount], d) = r.monthTotal
              /\ SumOver([i \in 1..d |-> r.displayData[i].amount], d) = r.shownTotal

\* the chart of two expenses of one day of the current month, in two
\* categories, with the switch off
C16_Witness ==
    /\ MonthChartShown
    /\ ~includeBusinessExpenses
    /\ Len(rendered[1].categoryExpenses) = 2
    /\ Len(rendered[1].dailySums) = 1
    /\ rendered[1].monthTotal = 10
    /\ rendered[1].shownTotal = 5

\* the number 0: a quotient of 0 by something else
IsZero(q) == q[1] = 0 /\ q[2] # 0

\* C17: when the total of the bucket displayed is 0, every category
\* percentage of it is 0: in categorySummary of the selected month, and in
\* displayCategories of the month chart and of the week chart, with the
\* switch on or off.
C17_ZeroTotalZeroPercentage ==
    /\ (MonthlyRendered /\ rendered[1].currentMonthData # <<>>
        /\ rendered[1].currentMonthData[1].total = 0) =>
          \A i \in 1..Len(rendered[1].categorySummary) :
              IsZero(rendered[1].categorySummary[i].percentage)
    /\ (MonthChartShown /\ rendered[1].shownTotal = 0) =>
          \A i \in 1..Len(rendered[1].displayCategories) :
              IsZero(rendered[1].displayCategories[i].percentage)
    /\ (WeekChartShown /\ rendered[1].activeWeeklyTotal = 0) =>
          \A i \in 1..Len(rendered[1].displayCategories) :
              IsZero(rendered[1].displayCategories[i].percentage)

\* C18: a comparison with the previous period is shown only when the total of
\* the previous period is above 0, and is then (total - previous) / previous
\* * 100: the "vs last month" figure of the monthly page and the Week-over-Week
\* figure of the week chart, with the switch on or off.
C18_ComparisonOnlyOverPositive ==
    /\ (MonthlyRendered /\ rendered[1].vsLastMonth # <<>>) =>
          /\ rendered[1].previousMonthData[1].total > 0
          /\ rendered[1].vsLastMonth[1]
                = Quotient((rendered[1].currentMonthData[1].total
                              - rendered[1].previousMonthData[1].total) * 100,
                           rendered[1].previousMonthData[1].total)
    /\ (WeekChartShown /\ rendered[1].weekOverWeek # <<>>) =>
          /\ rendered[1].activePreviousWeekTotal > 0
          /\ rendered[1].weekOverWeek[1]
                = Quotient((rendered[1].activeWeeklyTotal
                              - rendered[1].activePreviousWeekTotal) * 100,
                           rendered[1].activePreviousWeekTotal)

\* two JavaScript numbers that are finite and equal
SameNumber(p, q) == p[2] # 0 /\ q[2] # 0 /\ p[1] * q[2] = q[1] * p[2]

\* two category lists with the same names, amounts, expenses and percentages
SameCategories(cs, ds) ==
    /\ Len(cs) = Len(ds)
    /\ \A i \in 1..Len(cs) :
          /\ cs[i].name = ds[i].name
          /\ cs[i].amount = ds[i].amount
          /\ cs[i].expenses = ds[i].expenses
          /\ SameNumber(cs[i].percentage, ds[i].percentage)

\* the list with the expenses of category "Business" removed
WithoutBusiness(list) == SelectSeq(list, LAMBDA e : e.category # "Business")

\* C19: with the switch off, what a chart shows is what the same chart shows,
\* switch on, for the list without the "Business" expenses: the total, the day
\* points and their amounts, the categories and their percentages, and for
\* the week chart the previous-week total.
C19_ExclusionIsPreFilter ==
    /\ (MonthChartShown /\ ~includeBusinessExpenses) =>
          LET pre == MonthChartRender(WithoutBusiness(vExpenses), now, tz, TRUE)
          IN  /\ rendered[1].shownTotal = pre.shownTotal
              /\ rendered[1].displayData = pre.displayData
              /\ SameCategories(rendered[1].displayCategories, pre.displayCategories)
    /\ (WeekChartShown /\ ~includeBusinessExpenses) =>
          LET pre == WeekChartRender(WithoutBusiness(vExpenses), now, tz, TRUE)
          IN  /\ rendered[1].activeWeeklyTotal = pre.activeWeeklyTotal
              /\ rendered[1].activePreviousWeekTotal = pre.activePreviousWeekTotal
              /\ rendered[1].chartData = pre.chartData
              /\ SameCategories(rendered[1].displayCategories, pre.displayCategories)

\* C20: an expense without a category raises no error and is counted under
\* the category name "Uncategorized": analyzeSpendingPatterns returns, the two
\* charts render, and every bucket of monthlyData that holds such an expense
\* has an "Uncategorized" entry.
C20_NullCategoryUncategorized ==
    /\ (rendered # <<>> /\ rendered[1].component = "analyzeSpendingPatterns") =>
          ~rendered[1].first.error
    /\ (rendered # <<>> /\ rendered[1].component
            \in {"CurrentMonthExpensesChart", "CurrentWeekExpensesChart"}) =>
          ~rendered[1].error
    /\ MonthlyRendered =>
          \A b \in 1..Len(rendered[1].monthlyData) :
              LET bucket == rendered[1].monthlyData[b]
              IN  /\ \A i \in 1..Len(bucket.categories) :
                        bucket.categories[i].name # NoCategory
                  /\ (\E j \in 1..Len(bucket.expenses) :
                          bucket.expenses[j].category = NoCategory)
                     => \E i \in 1..Len(bucket.categories) :
                            bucket.categories[i].name = "Uncategorized"

\* the category names of the lists in ascending order of String comparison
NameRank(name) ==
    CASE name = NoCategory -> 0
      [] name = "Business" -> 1
      [] name = "Food" -> 2
      [] name = "Rent" -> 3
      [] name = "Uncategorized" -> 4

\* C21: a category breakdown is in descending order of total, and categories
\* of equal total are in ascending order of name: categorySummary of the
\* monthly page and the category lists of the month chart and the week chart.
C21_CategoryOrder ==
    /\ MonthlyRendered =>
          \A i \in 1..Len(rendered[1].categorySummary),
             j \in 1..Len(rendered[1].categorySummary) :
              i < j =>
                 LET a == rendered[1].categorySummary[i]
                     b == rendered[1].categorySummary[j]
                 IN  a.total > b.total
                     \/ (a.total = b.total /\ NameRank(a.name) < NameRank(b.name))
    /\ (MonthChartShown \/ WeekChartShown) =>
          \A i \in 1..Len(rendered[1].displayCategories),
             j \in 1..Len(rendered[1].displayCategories) :
              i < j =>
                 LET a == rendered[1].displayCategories[i]
                     b == rendered[1].displayCategories[j]
                 IN  a.amount > b.amount
                     \/ (a.amount = b.amount /\ NameRank(a.name) < NameRank(b.name))

\* the key of the calendar month before the month of key k
PrecedingMonthKey(k) == IF k[2] = 1 THEN <<k[1] - 1, 12>> ELSE <<k[1], k[2] - 1>>

\* C22: on the monthly page a "vs last month" figure is shown only against
\* the bucket of the calendar month just before the selected month.
C22_ComparedWithPrecedingMonth ==
    (MonthlyRendered /\ rendered[1].vsLastMonth # <<>>) =>
        rendered[1].previousMonthData[1].key
            = PrecedingMonthKey(rendered[1].currentMonthData[1].key)

\* C27: while the monthly page shows a non-empty list, the selected month is
\* the key of a bucket of monthlyData (a month with at least one expense), so
\* that currentMonthData and the index used by navigateMonth are defined.
C27_SelectedMonthHasExpenses ==
    (MonthlyRendered /\ vExpenses # <<>>) =>
        /\ selectedMonth # <<>>
        /\ \E i \in 1..Len(rendered[1].sortedMonthKeys) :
               rendered[1].sortedMonthKeys[i] = selectedMonth[1]
        /\ rendered[1].currentMonthData # <<>>

\* the date string of the day counted d days from the first day of 2025
DateOfDay(d) == GetDateString(FieldsFrom(2025, 0, d))

\* C23: whatever the weekday of today, the seven day slots of the week chart
\* are the consecutive dates from a Monday that is today or one of the six
\* days before it (today itself on a Monday, six days back on a Sunday), so
\* they contain today; the previous-week slots are the seven dates before.
C23_WeekWindow ==
    WeekChartShown =>
        LET today == (now + tz) \div 24
            slots == rendered[1].currentWeekData
        IN  \E d \in (today - 6)..today :
                /\ GetDay(d * 24, 0) = 1
                /\ GetDay(now, tz) = 1 => d = today
                /\ GetDay(now, tz) = 0 => d = today - 6
                /\ \A i \in 1..7 :
                      /\ slots[i].currentDate = DateOfDay(d + i - 1)
                      /\ slots[i].previousDate = DateOfDay(d - 8 + i)

\* the chart mounted on a Sunday, the first of a month, in the zone west of
\* UTC; the slots start in the month before
C23_Witness ==
    /\ WeekChartShown
    /\ tz = -5
    /\ GetDay(now, tz) = 0
    /\ GetDateString(Fields(now, tz)) = <<2026, 1, 4>>
    /\ rendered[1].currentWeekData[1].currentDate = <<2025, 12, 29>>

(***************************************************************************)
(* Properties of the pages                                                 *)
(***************************************************************************)
\* C24: the page requests are made at offsets 0, PageSize, 2 * PageSize, ...;
\* the rows collected are always the first rows of the table, each once, in
\* query order; the loop ends after Len(store) \div PageSize + 1 requests
\* with all rows collected and set as the expenses of the page; a load that
\* is still running can take a step; a failed request sets the error state
\* and clears the loading flag, and a failed page request leaves the
\* expenses of the page empty.
C24_PagedLoad ==
    /\ \A i \in 1..Len(requests) : requests[i] = (i - 1) * PageSize
    /\ Len(requests) <= Len(store) \div PageSize + 1
    /\ allExpenses = SubSeq(store, 1, Len(allExpenses))
    /\ ~fetchMore =>
          /\ Len(requests) = Len(store) \div PageSize + 1
          /\ allExpenses = store
          /\ vExpenses = store
    /\ loading => ENABLED NextLoad
    /\ error # <<>> => ~loading
    /\ (error # <<>> /\ fetchMore) => vExpenses = <<>>
    /\ (~loading /\ error = <<>>) => ~fetchMore

\* a table of exactly two full pages loaded with three requests, the last of
\* them answered by an empty page
C24_Witness ==
    /\ ~loading
    /\ error = <<>>
    /\ Len(store) = 2 * PageSize
    /\ requests = <<0, PageSize, 2 * PageSize>>
    /\ vExpenses = store

C29_EditsOnlyOnSuccess ==
    [][ Len(edits') = Len(edits) + 1 =>
          LET call == edits'[Len(edits')]
              at == {i \in 1..Len(vExpenses) : vExpenses[i].id = call.id}
          IN  IF ~call.ok
              THEN vExpenses' = vExpenses /\ error' # <<>>
              ELSE /\ error' = error
                   /\ Cardinality(at) = 1
                   /\ \A i \in at :
                         IF call.op = "delete"
                         THEN vExpenses' = SubSeq(vExpenses, 1, i - 1)
                                            \o SubSeq(vExpenses, i + 1, Len(vExpenses))
                         ELSE /\ Len(vExpenses') = Len(vExpenses)
                              /\ vExpenses'[i].id = call.id
                              /\ \A j \in 1..Len(vExpenses) :
                                    j # i => vExpenses'[j] = vExpenses[j] ]_vars

\* two calls, a delete and an update, the first on the second expense and
\* successful, the second successful or failed, with the first expense still
\* in its place
C29_Witness ==
    /\ Len(edits) = 2
    /\ edits[1].ok
    /\ edits[1].op # edits[2].op
    /\ edits[1].id = 2
    /\ Len(vExpenses) >= 2
    /\ vExpenses[1].id = 1
    /\ (edits[2].ok \/ error # <<>>)

\* C30: while the expenses page shows its charts and its list, the total of
\* the all-expenses chart (range "all") is the total of the expense list (no
\* date range), and the month totals of the monthly chart are the month
\* totals of the expenses the other components are given.
C30_AggregatesAgree ==
    (page = "expenses" /\ PageShown) =>
        /\ PeriodTotal(dailyExpenses) = TotalAmount(vExpenses)
        /\ AggregateMonthlyExpenses(dailyExpenses, tz) = AggregateMonthlyExpenses(vExpenses, tz)


(***************************************************************************)
(* Properties of the paginated list.                                       *)
(***************************************************************************)
\* the sum of the page totals of the pages 1..n
RECURSIVE SumOfPageTotals(_, _)
SumOfPageTotals(filtered, n) ==
    IF n = 0 THEN 0 ELSE SumOfPageTotals(filtered, n - 1) + PageTotal(filtered, n)

\* C28: while the paginated list is shown, the current page lies in
\* 1..max(1, totalPages), so the page shown has rows whenever the filtered
\* list has some; and the page totals of the pages 1..totalPages add up to
\* the total of the filtered list.
C28_PageInRange ==
    ListShown =>
        /\ currentPage >= 1
        /\ currentPage <= (IF ShownTotalPages > 1 THEN ShownTotalPages ELSE 1)
        /\ ShownList # <<>> => PaginatedExpenses(ShownList, currentPage) # <<>>
        /\ SumOfPageTotals(ShownList, ShownTotalPages) = TotalAmount(ShownList)

====
